---- MODULE Spec2Model ----
(***************************************************************************)
(* State-machine model of h5json.Hdf5db (src/h5json/hdf5db.py): the UUID   *)
(* object directory kept in the "__db__" group of a writable HDF5 file,    *)
(* the link operations coupled to it, the timestamp tables and the ACL     *)
(* store.                                                                  *)
(*                                                                         *)
(* The HDF5 file is modelled as a set of object addresses 0..MaxObj, the   *)
(* root group living at address RootObj.  A group holds named links; an    *)
(* object whose last hard link disappears is freed by the HDF5 library and *)
(* its address may be handed out again.  The directory is the content of   *)
(* the containers {groups}, {datasets}, {datatypes} (hard links named by   *)
(* UUID = anonymous objects, attributes named by UUID = object references  *)
(* to linked objects), {addr}, {ctime}, {mtime} and {acl}.                 *)
(***************************************************************************)
EXTENDS Integers, Sequences, FiniteSets, TLC

\* ---------------------------------------------------------------- bounds
MaxObj == 2          \* addresses available for objects other than the root
MaxUuid == 2         \* UUID strings other than the root UUID
MaxOps == 2          \* number of calls made on one handle
MaxUser == 1         \* user ids 0..MaxUser (0 is the default user)
MaxQuery == 4        \* characters in a query

\* ---------------------------------------------------------------- values
RootObj == 0
RootUuid == 0
NoObj == 0 - 1       \* Python None for an object handle / absent table key
ExcObj == 0 - 2      \* dereferencing a stale object reference raised
NoUuid == 0 - 1
Objs == 0..MaxObj
UUIDs == 1..MaxUuid
AllUuids == 0..MaxUuid
Names == {"__db__x", "a", "b"}
\* iteration order of the links of a group
NameSeq == <<"__db__x", "a", "b">>
\* the link names whose first six characters are "__db__"
DbNames == {"__db__x"}
\* the link names passed to the link calls
ArgNames == {"a", "b"}
FileTime == 1                    \* op.getmtime of the file at initFile
Collections == {"groups", "datasets", "datatypes"}
CollectionSeq == <<"groups", "datasets", "datatypes">>
UserIds == 0..MaxUser

NoLink == [cls |-> "none", tgt |-> NoObj, path |-> ""]
HardLink(o) == [cls |-> "hard", tgt |-> o, path |-> ""]
SoftLink(p) == [cls |-> "soft", tgt |-> NoObj, path |-> p]
ExternalLink == [cls |-> "ext", tgt |-> NoObj, path |-> ""]
UDLink == [cls |-> "ud", tgt |-> NoObj, path |-> ""]
EmptyGroup == [n \in Names |-> NoLink]

TsKeys == (AllUuids \X {"object"} \X {""})
          \cup (AllUuids \X {"link", "attribute"} \X Names)

VARIABLES
    kind,               \* address -> "free" | "group" | "dataset" | "datatype"
    links,              \* address -> name -> link (groups only)
    anon,               \* collection -> uuid -> member of the container
    refs,               \* collection -> uuid -> object reference attribute
    addr,               \* {addr}: address -> uuid
    ctime,              \* {ctime}: key -> timestamp, 0 when absent
    mtime,              \* {mtime}: key -> timestamp, 0 when absent
    acl,                \* {acl}: uuid -> sequence of ACL rows
    inited,             \* "__db__" exists in the file
    update_timestamps,  \* constructor argument of the handle
    readonly,           \* the handle was opened read-only; the directory is
                        \* then kept in a file of its own
    used,               \* UUID strings that were minted or supplied so far
    created,            \* UUIDs that create calls returned to the caller
    nops,               \* calls made so far
    last,               \* the last call and its outcome
    query,              \* _getEvalStr: the query, one character per element
    field_names,        \* _getEvalStr: the field names of the dataset's type
    scan,               \* _getEvalStr: the locals of the running call
    args,               \* the arguments of the running call of a function
                        \* that works on values alone
    ret,                \* how far that call has come, and what it returned
    tmp,                \* the names in the {tmp} scratch group: its datasets
                        \* and its attributes
    dblink              \* the link a call put in the place of the root's
                        \* "__db__" link, NoLink while that link is the one
                        \* initFile made

vars == <<kind, links, anon, refs, addr, ctime, mtime, acl, inited,
          update_timestamps, readonly, used, created, nops, last,
          query, field_names, scan, args, ret, tmp, dblink>>

\* No call of a function on values is running.
NoArgs == [fn |-> "none"]
NoRet == [pc |-> "none"]

\* The {tmp} group of a file nothing has used it in.
NoTmp == [datasets |-> {}, attrs |-> {}]

\* The persistent content of the file as one value.
St == [kind |-> kind, links |-> links, anon |-> anon, refs |-> refs,
       addr |-> addr, ctime |-> ctime, mtime |-> mtime, acl |-> acl,
       inited |-> inited, used |-> used]

Min(S) == CHOOSE x \in S : \A y \in S : x <= y

\* ------------------------------------------------------- HDF5 behaviour
\* grp[name] with a path "/m": the object reached from the root, NoObj for
\* KeyError.  Soft links are followed, at most Cardinality(Names) of them
\* can be chained before the chain cycles.
RECURSIVE ResolvePath(_, _, _)
ResolvePath(S, m, fuel) ==
    LET l == S.links[RootObj][m] IN
    IF m \notin Names THEN NoObj
    ELSE IF l.cls = "hard" THEN l.tgt
    ELSE IF l.cls = "soft" /\ fuel > 0 THEN ResolvePath(S, l.path, fuel - 1)
    ELSE NoObj

\* child = grp[name]
OpenLink(S, g, n) ==
    LET l == S.links[g][n] IN
    IF l.cls = "hard" THEN l.tgt
    ELSE IF l.cls = "soft" THEN ResolvePath(S, l.path, Cardinality(Names))
    ELSE NoObj

\* An object stays allocated while a hard link of a group or of a directory
\* container names it.
Held(S, o) ==
    \/ \E g \in Objs, n \in Names :
          S.kind[g] = "group" /\ S.links[g][n].cls = "hard" /\ S.links[g][n].tgt = o
    \/ \E c \in Collections, u \in AllUuids : S.anon[c][u] = o

\* The library frees every object that lost its last hard link, and with a
\* group the links it held.
RECURSIVE Collect(_)
Collect(S) ==
    LET dead == {o \in 1..MaxObj : S.kind[o] # "free" /\ ~Held(S, o)} IN
    IF dead = {} THEN S
    ELSE Collect([S EXCEPT
            !.kind = [o \in Objs |-> IF o \in dead THEN "free" ELSE S.kind[o]],
            !.links = [o \in Objs |-> IF o \in dead THEN EmptyGroup ELSE S.links[o]]])

\* ------------------------------------------------------------ timestamps
getTimeStampName(u, objType, name) == <<u, objType, name>>

setCreateTime(S, ut, u, objType, name, t) ==
    IF ~ut THEN S
    ELSE [S EXCEPT !.ctime[getTimeStampName(u, objType, name)] = t]

setModifiedTime(S, ut, u, objType, name, t) ==
    IF ~ut THEN S
    ELSE [S EXCEPT !.mtime[getTimeStampName(u, objType, name)] = t]

\* 0 stands for None
TsKeyError == 0 - 1
getCreateTime(S, u, objType, name, useRoot) ==
    LET k == getTimeStampName(u, objType, name) IN
    IF S.ctime[k] # 0 THEN S.ctime[k]
    ELSE IF useRoot THEN S.ctime[<<RootUuid, "object", "">>]
    ELSE 0

\* mtime_grp.attrs[root_uuid] raises KeyError when the root has no entry
getModifiedTime(S, u, objType, name, useRoot) ==
    LET k == getTimeStampName(u, objType, name) IN
    IF S.mtime[k] # 0 THEN S.mtime[k]
    ELSE IF S.ctime[k] # 0 THEN S.ctime[k]
    ELSE IF useRoot
         THEN (IF S.mtime[<<RootUuid, "object", "">>] # 0
               THEN S.mtime[<<RootUuid, "object", "">>] ELSE TsKeyError)
    ELSE 0

\* ------------------------------------------------------------- directory
\* visit(): one UUID per object found by visititems, which reports every
\* object below the root once, however many links reach it.
RECURSIVE Reach(_, _)
Reach(S, seen) ==
    LET more == {o \in Objs \ seen : \E g \in seen, n \in Names :
                    S.kind[g] = "group" /\ S.links[g][n].cls = "hard"
                    /\ S.links[g][n].tgt = o} IN
    IF more = {} THEN seen ELSE Reach(S, seen \cup more)

CollectionOf(k) ==
    CASE k = "group" -> "groups" [] k = "dataset" -> "datasets" [] OTHER -> "datatypes"

\* The objects visititems reports under a path that begins with "__db__":
\* the links of a group are walked in name order and a group's members
\* before its next sibling, so these are the objects found through the root
\* links of DbNames, which sort before every other name of the model.
Hidden(S) ==
    LET first == {S.links[RootObj][n].tgt : n \in
                     {k \in DbNames : S.links[RootObj][k].cls = "hard"}}
    IN  Reach([S EXCEPT !.links[RootObj] = EmptyGroup], first) \ {RootObj}

\* visit(path, obj), for every object visititems reports
RECURSIVE visit(_, _)
visit(S, todo) ==
    IF todo = {} THEN S
    ELSE IF Min(todo) \in Hidden(S) THEN visit(S, todo \ {Min(todo)})
    ELSE LET o == Min(todo)
             id == Min(UUIDs \ S.used)
             c == CollectionOf(S.kind[o])
         IN visit([S EXCEPT !.refs[c][id] = o, !.addr[o] = id,
                            !.used = @ \cup {id}], todo \ {o})

initFile(S, ut) ==
    IF S.inited THEN S
    ELSE LET S1 == setModifiedTime(setCreateTime([S EXCEPT !.inited = TRUE],
                        ut, RootUuid, "object", "", FileTime),
                        ut, RootUuid, "object", "", FileTime)
         IN visit(S1, Reach(S1, {RootObj}) \ {RootObj})

getObjectByUuid(S, col, u) ==
    IF col = "groups" /\ u = RootUuid THEN RootObj
    ELSE IF S.refs[col][u] # NoObj
         THEN (IF S.kind[S.refs[col][u]] = "free" THEN ExcObj ELSE S.refs[col][u])
         ELSE S.anon[col][u]

\* self.f[path] for a path of link names below the root, <<>> being "/"
RECURSIVE Lookup(_, _, _)
Lookup(S, g, path) ==
    IF path = <<>> \/ g \notin Objs THEN g
    ELSE IF S.kind[g] # "group" THEN NoObj
    ELSE Lookup(S, OpenLink(S, g, Head(path)), Tail(path))

getUUIDByAddress(S, o) == S.addr[o]

\* uuid NoUuid is None
getUUIDByPath(S, ut, path) ==
    LET S0 == initFile(S, ut)
        obj == Lookup(S0, RootObj, path)
    IN  IF path # <<>> /\ Head(path) \in DbNames
        THEN [st |-> S0, res |-> "EIO", uuid |-> NoUuid]
        ELSE IF path = <<>> THEN [st |-> S0, res |-> "ok", uuid |-> RootUuid]
        ELSE IF obj = NoObj THEN [st |-> S0, res |-> "KeyError", uuid |-> NoUuid]
        ELSE [st |-> S0, res |-> "ok", uuid |-> getUUIDByAddress(S0, obj)]

getDBCollection(S, u) ==
    LET hit == {i \in 1..3 : S.anon[CollectionSeq[i]][u] # NoObj
                             \/ S.refs[CollectionSeq[i]][u] # NoObj} IN
    IF hit = {} THEN "none" ELSE CollectionSeq[Min(hit)]

\* getGroupItemByUuid / getDatasetItemByUuid / getCommittedTypeItemByUuid on
\* an initialised handle: the result of the lookup of obj_uuid in col.
getItemByUuid(S, col, obj_uuid) ==
    IF getObjectByUuid(S, col, obj_uuid) = ExcObj THEN "ValueError"
    ELSE IF getObjectByUuid(S, col, obj_uuid) # NoObj THEN "ok"
    ELSE IF getModifiedTime(S, obj_uuid, "object", "", FALSE) # 0 THEN "ENOENT"
    ELSE "ENXIO"

\* ------------------------------------------------------------------- ACL
\* getAclDtype: the fields of an ACL row
AclFields == {"userid", "create", "read", "update", "delete", "readACL", "updateACL"}
AclRow(user, c, r, u, d, ra, ua) ==
    [userid |-> user, create |-> c, read |-> r, update |-> u, delete |-> d,
     readACL |-> ra, updateACL |-> ua]
\* the row a resize of the ACL dataset appends
ZeroRow == AclRow(0, 0, 0, 0, 0, 0, 0)
\* None as the result of a row lookup
NoAcl == AclRow(0 - 1, 0, 0, 0, 0, 0, 0)

getDefaultAcl == AclRow(0, 1, 1, 1, 1, 1, 1)

getNumAcls(S, obj_uuid) == Len(S.acl[obj_uuid])

getAclByObjAndUser(S, obj_uuid, userid) ==
    LET rows == S.acl[obj_uuid]
        found == {i \in 1..Len(rows) : rows[i].userid = userid}
    IN  IF found = {} THEN NoAcl ELSE rows[Min(found)]

\* getAcl asking for the object's default-user entry before the root's entry
\* for the user
getAclObjectFirst(S, obj_uuid, userid) ==
    LET a1 == getAclByObjAndUser(S, obj_uuid, userid)
        a2 == getAclByObjAndUser(S, RootUuid, userid)
        a3 == getAclByObjAndUser(S, obj_uuid, 0)
        a4 == getAclByObjAndUser(S, RootUuid, 0)
    IN  IF a1 # NoAcl THEN a1
        ELSE IF userid # 0 /\ a3 # NoAcl THEN a3
        ELSE IF obj_uuid # RootUuid /\ userid # 0 /\ a2 # NoAcl THEN a2
        ELSE IF obj_uuid # RootUuid /\ a4 # NoAcl THEN a4
        ELSE getDefaultAcl

getAcl(S, obj_uuid, userid) ==
    LET a1 == getAclByObjAndUser(S, obj_uuid, userid)
        a2 == getAclByObjAndUser(S, RootUuid, userid)
        a3 == getAclByObjAndUser(S, obj_uuid, 0)
        a4 == getAclByObjAndUser(S, RootUuid, 0)
    IN  IF a1 # NoAcl THEN a1
        ELSE IF obj_uuid # RootUuid /\ userid # 0 /\ a2 # NoAcl THEN a2
        ELSE IF userid # 0 /\ a3 # NoAcl THEN a3
        ELSE IF obj_uuid # RootUuid /\ a4 # NoAcl THEN a4
        ELSE getDefaultAcl

\* setAcl that adds a row without looking for the userid
setAclAppend(S, obj_uuid, row, keys) ==
    LET rows1 == Append(S.acl[obj_uuid], ZeroRow)
        item == [f \in AclFields |-> IF f \in keys THEN row[f] ELSE ZeroRow[f]]
    IN  [S EXCEPT !.acl[obj_uuid] = [rows1 EXCEPT ![Len(rows1)] = item]]

\* setAcl(obj_uuid, acl): keys are the keys of the dict acl, which always
\* include 'userid'
setAcl(S, obj_uuid, row, keys) ==
    LET rows == S.acl[obj_uuid]
        found == {i \in 1..Len(rows) : rows[i].userid = row.userid}
        rows1 == IF found = {} THEN Append(rows, ZeroRow) ELSE rows
        user_index == IF found = {} THEN Len(rows) + 1 ELSE Min(found)
        item == [f \in AclFields |-> IF f \in keys THEN row[f] ELSE rows1[user_index][f]]
    IN  [S EXCEPT !.acl[obj_uuid] = [rows1 EXCEPT ![user_index] = item]]

\* ------------------------------------------------------------ operations
\* The outcome of a call: the file content it leaves and "ok", the errno of
\* the IOError it raised, or the class of another exception it let escape.
\* The handles a call holds are closed when it returns, and the library
\* frees the objects left without a hard link at that point.
Result(S, r) == [st |-> S, res |-> r]
Finish(S, r) == [st |-> Collect(S), res |-> r]
Failed(r) == r.res \notin {"ok", "deleted", "ignored"}

\* The calls that start with initFile() and then refuse a read-only handle
Denied(S, ut) == Result(initFile(S, ut), "EPERM")

\* createGroup(obj_uuid): arg is NoUuid when the caller passes no obj_uuid,
\* o is the address the library allocates.
createGroup(S, ut, arg, o, now) ==
    LET S0 == initFile(S, ut)
        id == IF arg = NoUuid THEN Min(UUIDs \ S0.used) ELSE arg
        S1 == [S0 EXCEPT !.used = @ \cup {id}]
    IN  IF S1.anon["groups"][id] # NoObj THEN Finish(S1, "ValueError")
        ELSE LET S2 == [S1 EXCEPT !.kind[o] = "group", !.links[o] = EmptyGroup,
                                  !.anon["groups"][id] = o, !.addr[o] = id]
             IN Finish(setModifiedTime(setCreateTime(S2, ut, id, "object", "", now),
                                       ut, id, "object", "", now), "ok")

\* createDataset(datatype, datashape, obj_uuid=arg) with a type descriptor
\* and a shape: create_dataset refuses a name the container already has.
createDataset(S, ut, arg, o, now) ==
    LET S0 == initFile(S, ut)
        id == IF arg = NoUuid THEN Min(UUIDs \ S0.used) ELSE arg
        S1 == [S0 EXCEPT !.used = @ \cup {id}]
    IN  IF S1.anon["datasets"][id] # NoObj THEN Finish(S1, "EINVAL")
        ELSE LET S2 == [S1 EXCEPT !.kind[o] = "dataset",
                                  !.anon["datasets"][id] = o, !.addr[o] = id]
             IN Finish(setModifiedTime(setCreateTime(S2, ut, id, "object", "", now),
                                       ut, id, "object", "", now), "ok")

\* createCommittedType(datatype, obj_uuid=arg): datatype is a descriptor
\* (typ = NoUuid, a new object is committed at o) or the UUID typ of a
\* committed type, whose object is then hard-linked under the new name.
createCommittedType(S, ut, typ, arg, o, now) ==
    LET S0 == initFile(S, ut)
        id == IF arg = NoUuid THEN Min(UUIDs \ S0.used) ELSE arg
        S1 == [S0 EXCEPT !.used = @ \cup {id}]
        tgt == IF typ = NoUuid THEN NoObj ELSE getObjectByUuid(S1, "datatypes", typ)
        dt == IF typ = NoUuid THEN o ELSE tgt
    IN  IF typ # NoUuid /\ tgt = ExcObj THEN Finish(S1, "ValueError")
        ELSE IF typ # NoUuid /\ tgt = NoObj THEN Finish(S1, "ENXIO")
        ELSE IF S1.anon["datatypes"][id] # NoObj THEN Finish(S1, "ValueError")
        ELSE LET S2 == [S1 EXCEPT !.kind[dt] = IF typ = NoUuid THEN "datatype" ELSE @,
                                  !.anon["datatypes"][id] = dt, !.addr[dt] = id]
             IN Finish(setModifiedTime(setCreateTime(S2, ut, id, "object", "", now),
                                       ut, id, "object", "", now), "ok")

getNumLinksToObjectInGroup(S, grp, obj) ==
    Cardinality({n \in Names : OpenLink(S, grp, n) = obj})

\* The members and the references of {groups} that cannot be walked as a
\* group: a stale reference, or an object that is not a group.
BadGroupEntry(S) ==
    \/ \E u \in AllUuids : S.anon["groups"][u] # NoObj
                           /\ S.kind[S.anon["groups"][u]] # "group"
    \/ \E u \in AllUuids : S.refs["groups"][u] # NoObj
                           /\ S.kind[S.refs["groups"][u]] # "group"

\* getNumLinksToObject: every anonymous group, every linked group and then
\* the root; -1 when the walk raises.
getNumLinksToObject(S, obj) ==
    IF BadGroupEntry(S) THEN 0 - 1
    ELSE Cardinality({p \in AllUuids \X Names :
                S.anon["groups"][p[1]] # NoObj
                /\ OpenLink(S, S.anon["groups"][p[1]], p[2]) = obj})
       + Cardinality({p \in AllUuids \X Names :
                S.refs["groups"][p[1]] # NoObj
                /\ OpenLink(S, S.refs["groups"][p[1]], p[2]) = obj})
       + getNumLinksToObjectInGroup(S, RootObj, obj)

\* unlinkObjectItem(parentGrp, tgtObj, link_name); tgtObj = NoObj is None.
\* res is "deleted" (True), "ignored" (False) or the error raised.
unlinkObjectItem(S, parentGrp, tgtObj, link_name) ==
    LET l == S.links[parentGrp][link_name]
        obj == l.tgt
        numlinks == getNumLinksToObject(S, obj)
        obj_uuid == S.addr[obj]
        dbCol == getDBCollection(S, obj_uuid)
        unlinked(T) == [T EXCEPT !.links[parentGrp][link_name] = NoLink]
    IN  IF l.cls = "none" THEN Result(S, "EIO")
        ELSE IF l.cls = "ud" THEN Result(S, "EIO")
        ELSE IF l.cls # "hard" THEN Result(S, "ignored")
        ELSE IF ~(tgtObj = NoObj \/ obj = tgtObj) THEN Result(S, "ignored")
        ELSE IF numlinks = 0 - 1 THEN Result(S, "ValueError")
        ELSE IF numlinks # 1 THEN Result(unlinked(S), "deleted")
        ELSE IF obj_uuid = NoUuid THEN Result(S, "TypeError")
        ELSE IF dbCol = "none" THEN Result(S, "AttributeError")
        ELSE IF S.refs[dbCol][obj_uuid] = NoObj THEN Result(S, "KeyError")
        ELSE IF S.anon[dbCol][obj_uuid] # NoObj
             THEN Result([S EXCEPT !.refs[dbCol][obj_uuid] = NoObj], "ValueError")
        ELSE Result(unlinked([S EXCEPT !.refs[dbCol][obj_uuid] = NoObj,
                                       !.anon[dbCol][obj_uuid] = obj]), "deleted")

\* unlinkObject(parentGrp, tgtObj): the names of the group as they were when
\* the iteration started, from position i on.
RECURSIVE unlinkObject(_, _, _, _, _)
unlinkObject(S, parentGrp, tgtObj, present, i) ==
    IF i > Len(NameSeq) THEN Result(S, "ok")
    ELSE IF NameSeq[i] \notin present THEN unlinkObject(S, parentGrp, tgtObj, present, i + 1)
    ELSE LET r == unlinkObjectItem(S, parentGrp, tgtObj, NameSeq[i]) IN
         IF Failed(r) THEN r
         ELSE unlinkObject(r.st, parentGrp, tgtObj, present, i + 1)

isObjectHardLinked(S, parentGroup, targetGroup, linkName) ==
    /\ S.links[parentGroup][linkName].cls = "hard"
    /\ S.links[parentGroup][linkName].tgt = targetGroup

\* The (uuid, name) pairs in the order deleteObjectByUuid walks {groups}.attrs
PairSeq == [i \in 1..((MaxUuid + 1) * Len(NameSeq)) |->
              <<(i - 1) \div Len(NameSeq), NameSeq[((i - 1) % Len(NameSeq)) + 1]>>]

RECURSIVE unlinkList(_, _, _, _)
unlinkList(S, tgt, linkList, i) ==
    IF i > Len(linkList) THEN Result(S, "ok")
    ELSE LET r == unlinkObjectItem(S, linkList[i][1], tgt, linkList[i][2]) IN
         IF Failed(r) THEN r ELSE unlinkList(r.st, tgt, linkList, i + 1)

\* linkObject(parentUUID, childUUID, link_name)
linkObject(S, ut, parentUUID, childUUID, link_name, now) ==
    LET S0 == initFile(S, ut)
        parentObj == getObjectByUuid(S0, "groups", parentUUID)
        d == getObjectByUuid(S0, "datasets", childUUID)
        g == getObjectByUuid(S0, "groups", childUUID)
        t == getObjectByUuid(S0, "datatypes", childUUID)
        childObj == IF d # NoObj THEN d ELSE IF g # NoObj THEN g ELSE t
        r1 == IF S0.links[parentObj][link_name].cls # "none"
              THEN unlinkObjectItem(S0, parentObj, NoObj, link_name)
              ELSE Result(S0, "ignored")
        S2 == [r1.st EXCEPT !.links[parentObj][link_name] = HardLink(childObj)]
        dbCol == getDBCollection(S2, childUUID)
        S3 == IF S2.anon[dbCol][childUUID] # NoObj
              THEN [S2 EXCEPT !.anon[dbCol][childUUID] = NoObj,
                              !.refs[dbCol][childUUID] = childObj]
              ELSE S2
    IN  IF parentObj = ExcObj THEN Finish(S0, "ValueError")
        ELSE IF parentObj = NoObj THEN Finish(S0, "ENXIO")
        ELSE IF childObj = ExcObj THEN Finish(S0, "ValueError")
        ELSE IF childObj = NoObj THEN Finish(S0, "ENXIO")
        ELSE IF S0.kind[parentObj] # "group" THEN Finish(S0, "TypeError")
        ELSE IF Failed(r1) THEN Finish(r1.st, r1.res)
        ELSE IF r1.st.links[parentObj][link_name].cls # "none"
             THEN Finish(r1.st, "ValueError")
        ELSE IF dbCol = "none" THEN Finish(S2, "TypeError")
        ELSE Finish(setModifiedTime(setCreateTime(S3, ut, parentUUID, "link", link_name, now),
                                    ut, parentUUID, "link", link_name, now), "ok")

\* createSoftLink(parentUUID, linkPath, link_name), linkPath = "/" + path
createSoftLink(S, ut, parentUUID, path, link_name, now) ==
    LET S0 == initFile(S, ut)
        parentObj == getObjectByUuid(S0, "groups", parentUUID)
        S1 == [S0 EXCEPT !.links[parentObj][link_name] = SoftLink(path)]
    IN  IF parentObj = ExcObj THEN Finish(S0, "ValueError")
        ELSE IF parentObj = NoObj THEN Finish(S0, "ENXIO")
        ELSE IF S0.kind[parentObj] # "group" THEN Finish(S0, "TypeError")
        ELSE Finish(setModifiedTime(setCreateTime(S1, ut, parentUUID, "link", link_name, now),
                                    ut, parentUUID, "link", link_name, now), "ok")

\* createExternalLink(parentUUID, extPath, linkPath, link_name)
createExternalLink(S, ut, parentUUID, link_name, now) ==
    LET S0 == initFile(S, ut)
        parentObj == getObjectByUuid(S0, "groups", parentUUID)
        S1 == [S0 EXCEPT !.links[parentObj][link_name] = ExternalLink]
    IN  IF parentObj = ExcObj THEN Finish(S0, "ValueError")
        ELSE IF parentObj = NoObj THEN Finish(S0, "ENXIO")
        ELSE IF S0.kind[parentObj] # "group" THEN Finish(S0, "TypeError")
        ELSE Finish(setModifiedTime(setCreateTime(S1, ut, parentUUID, "link", link_name, now),
                                    ut, parentUUID, "link", link_name, now), "ok")

\* a lookup that takes no link for a user-defined one
NoUDLink(l) == FALSE
\* grp.get(link_name, getlink=True) raises TypeError for a user-defined link
IsUDLink(l) == l.cls = "ud"

\* unlinkItem(grpUuid, link_name)
unlinkItem(S, ut, grpUuid, link_name, now) ==
    LET S0 == initFile(S, ut)
        grp == getObjectByUuid(S0, "groups", grpUuid)
        l == S0.links[grp][link_name]
        r == unlinkObjectItem(S0, grp, l.tgt, link_name)
        S1 == [S0 EXCEPT !.links[grp][link_name] = NoLink]
    IN  IF grp = ExcObj THEN Finish(S0, "ValueError")
        ELSE IF grp = NoObj THEN Finish(S0, "ENXIO")
        ELSE IF S0.kind[grp] # "group" THEN Finish(S0, "TypeError")
        ELSE IF l.cls = "none" THEN Finish(S0, "ENXIO")
        ELSE IF IsUDLink(l) THEN Finish(S0, "EPERM")
        ELSE IF l.cls = "hard"
             THEN (IF Failed(r) THEN Finish(r.st, r.res)
                   ELSE Finish(setModifiedTime(r.st, ut, grpUuid, "link", link_name, now), "ok"))
        ELSE Finish(setModifiedTime(S1, ut, grpUuid, "link", link_name, now), "ok")

\* a root test that never matches
NeverRootGroup(S, col, obj_uuid) == FALSE
\* obj_uuid == self.dbGrp.attrs["rootUUID"] and objtype == 'group'
IsRootGroup(S, col, obj_uuid) == col = "groups" /\ obj_uuid = RootUuid

\* deleteObjectByUuid(objtype, obj_uuid); col is the collection of objtype
deleteObjectByUuid(S, ut, col, obj_uuid, now) ==
    LET opened(S0) ==
          LET tgt == getObjectByUuid(S0, col, obj_uuid)
              listed(r1) ==
                LET T == r1.st
                    hit(p) == T.refs["groups"][p[1]] # NoObj
                              /\ isObjectHardLinked(T, T.refs["groups"][p[1]], tgt, p[2])
                    found == SelectSeq(PairSeq, hit)
                    linkList == [i \in 1..Len(found) |->
                                    <<T.refs["groups"][found[i][1]], found[i][2]>>]
                    removed(r2) ==
                      LET dropped(S3) ==
                            IF S3.anon[col][obj_uuid] # NoObj
                            THEN Finish(setModifiedTime(
                                     [S3 EXCEPT !.anon[col][obj_uuid] = NoObj],
                                     ut, obj_uuid, "object", "", now), "ok")
                            ELSE IF S3.refs[col][obj_uuid] # NoObj
                            THEN Finish(setModifiedTime(
                                     [S3 EXCEPT !.refs[col][obj_uuid] = NoObj],
                                     ut, obj_uuid, "object", "", now), "ok")
                            ELSE Finish(S3, "EIO")
                      IN  IF Failed(r2) THEN Finish(r2.st, r2.res)
                          ELSE IF r2.st.addr[tgt] = NoUuid THEN Finish(r2.st, "KeyError")
                          ELSE dropped([r2.st EXCEPT !.addr[tgt] = NoUuid])
                IN  IF Failed(r1) THEN Finish(T, r1.res)
                    ELSE IF \E u \in AllUuids : T.refs["groups"][u] # NoObj
                                                /\ T.kind[T.refs["groups"][u]] # "group"
                         THEN Finish(T, "ValueError")
                    ELSE removed(unlinkList(T, tgt, linkList, 1))
          IN  IF IsRootGroup(S0, col, obj_uuid) THEN Finish(S0, "EPERM")
              ELSE IF tgt = ExcObj THEN Finish(S0, "ValueError")
              ELSE IF tgt = NoObj THEN Finish(S0, "ENXIO")
              ELSE listed(unlinkObject(S0, RootObj, tgt,
                              {n \in Names : S0.links[RootObj][n].cls # "none"}, 1))
    IN  opened(initFile(S, ut))

\* ------------------------------------------------------- dataset writes
\* resizeDataset(obj_uuid, shape); fits says whether shape has the rank of
\* the dataset and lies between its extent and its maximum extent.  The
\* read-only branch evaluates errno.EACESS, a name the errno module lacks.
resizeDataset(S, ut, ro, obj_uuid, fits, now) ==
    LET S0 == initFile(S, ut)
        dset == getObjectByUuid(S0, "datasets", obj_uuid)
    IN  IF ro THEN Result(S0, "AttributeError")
        ELSE IF dset = ExcObj THEN Finish(S0, "ValueError")
        ELSE IF dset = NoObj THEN Finish(S0, "AttributeError")
        ELSE IF ~fits THEN Finish(S0, "EINVAL")
        ELSE Finish(setModifiedTime(S0, ut, obj_uuid, "object", "", now), "ok")

\* setDatasetValuesByUuid(obj_uuid, data, slices, format); format_ok and
\* fits say whether the format and the selection and data pass the tests.
\* The library refuses the write to a file that was opened with mode 'r'.
setDatasetValuesByUuid(S, ut, ro, obj_uuid, format_ok, fits, now) ==
    LET S0 == initFile(S, ut)
        dset == getObjectByUuid(S0, "datasets", obj_uuid)
    IN  IF dset = ExcObj THEN Finish(S0, "ValueError")
        ELSE IF ~format_ok THEN Finish(S0, "EINVAL")
        ELSE IF dset = NoObj THEN Finish(S0, "ENXIO")
        ELSE IF ~fits THEN Finish(S0, "EINVAL")
        ELSE IF ro THEN Result(S0, "OSError")
        ELSE Finish(setModifiedTime(S0, ut, obj_uuid, "object", "", now), "ok")

\* setDatasetValuesByPointSelection(obj_uuid, data, points, format)
setDatasetValuesByPointSelection(S, ut, ro, obj_uuid, format_ok, fits, now) ==
    LET S0 == initFile(S, ut)
        dset == getObjectByUuid(S0, "datasets", obj_uuid)
    IN  IF dset = ExcObj THEN Finish(S0, "ValueError")
        ELSE IF ~format_ok THEN Finish(S0, "EINVAL")
        ELSE IF dset = NoObj THEN Finish(S0, "ENXIO")
        ELSE IF ro THEN Result(S0, "OSError")
        ELSE IF ~fits THEN Finish(S0, "EINVAL")
        ELSE Finish(setModifiedTime(S0, ut, obj_uuid, "object", "", now), "ok")

\* ----------------------------------------------------------- listings
\* None for a limit argument
NoLimit == 0 - 1

\* the keys of a table in the order h5py iterates them, by name
RECURSIVE KeySeq(_)
KeySeq(keys) == IF keys = {} THEN <<>>
                ELSE <<Min(keys)>> \o KeySeq(keys \ {Min(keys)})

\* One of the two loops of getCollection over the keys seq[i..], with the
\* locals marker and uuids in acc; count is Len(acc.uuids).
RECURSIVE Gather(_, _, _, _)
Gather(seq, i, limit, acc) ==
    IF i > Len(seq) THEN acc
    ELSE IF acc.marker # NoUuid
    THEN Gather(seq, i + 1, limit,
                IF seq[i] = acc.marker THEN [acc EXCEPT !.marker = NoUuid] ELSE acc)
    ELSE LET more == [acc EXCEPT !.uuids = Append(@, seq[i])] IN
         IF limit # NoLimit /\ limit > 0 /\ Len(more.uuids) = limit THEN more
         ELSE Gather(seq, i + 1, limit, more)

getCollection(S, ut, col_type, marker, limit) ==
    LET S0 == initFile(S, ut)
        attrs == KeySeq({u \in AllUuids : S0.refs[col_type][u] # NoObj})
        members == KeySeq({u \in AllUuids : S0.anon[col_type][u] # NoObj})
        linked == Gather(attrs, 1, limit, [marker |-> marker, uuids |-> <<>>])
    IN  [st |-> S0, res |-> "ok",
         uuids |-> IF limit = 0 \/ (limit # NoLimit /\ Len(linked.uuids) < limit)
                   THEN Gather(members, 1, limit, linked).uuids
                   ELSE linked.uuids]

\* getLinkItemByObj(parent, link_name) for a name of the group: the item,
\* or the exception 'groups/' + None raises when the target of a hard link
\* has no entry in {addr}.
getLinkItemByObj(S, parent, link_name) ==
    LET l == S.links[parent][link_name] IN
    IF l.cls = "hard"
    THEN IF getUUIDByAddress(S, l.tgt) = NoUuid
         THEN [res |-> "TypeError", title |-> link_name, class |-> "H5L_TYPE_HARD",
               id |-> NoUuid]
         ELSE [res |-> "ok", title |-> link_name, class |-> "H5L_TYPE_HARD",
               id |-> getUUIDByAddress(S, l.tgt)]
    ELSE [res |-> "ok", title |-> link_name, id |-> NoUuid,
          class |-> CASE l.cls = "soft" -> "H5L_TYPE_SOFT"
                      [] l.cls = "ext" -> "H5L_TYPE_EXTERNAL"
                      [] OTHER -> "H5L_TYPE_USER_DEFINED"]

\* The loop of getLinkItems over the names seq[i..] of the group, with the
\* locals gotMarker and items in acc; count is Len(acc.items).
RECURSIVE LinkLoop(_, _, _, _, _, _, _)
LinkLoop(S, parent, seq, i, marker, limit, acc) ==
    IF i > Len(seq) THEN acc
    ELSE IF ~acc.gotMarker
    THEN LinkLoop(S, parent, seq, i + 1, marker, limit,
                  [acc EXCEPT !.gotMarker = (seq[i] = marker)])
    ELSE LET item == getLinkItemByObj(S, parent, seq[i])
             more == [acc EXCEPT !.items = Append(@, item)]
         IN  IF item.res # "ok" THEN [acc EXCEPT !.res = item.res]
             ELSE IF limit > 0 /\ Len(more.items) = limit THEN more
             ELSE LinkLoop(S, parent, seq, i + 1, marker, limit, more)

\* getLinkItems(grpUuid, marker, limit); marker "" is None
getLinkItems(S, ut, grpUuid, marker, limit) ==
    LET S0 == initFile(S, ut)
        parent == getObjectByUuid(S0, "groups", grpUuid)
        listed(g) == LinkLoop(S0, g, SelectSeq(NameSeq, LAMBDA n : S0.links[g][n].cls # "none"),
                              1, marker, limit,
                              [res |-> "ok", gotMarker |-> (marker = ""), items |-> <<>>])
    IN  IF parent = ExcObj THEN [st |-> S0, res |-> "ValueError", items |-> <<>>]
        ELSE IF parent = NoObj THEN [st |-> S0, res |-> "ENXIO", items |-> <<>>]
        ELSE IF S0.kind[parent] # "group" THEN [st |-> S0, res |-> "TypeError", items |-> <<>>]
        ELSE [st |-> S0, res |-> listed(parent).res,
              items |-> IF listed(parent).res = "ok" THEN listed(parent).items ELSE <<>>]

\* ----------------------------------------------------------- _getEvalStr
\* Characters are one-character strings; str.isalpha and str.isalnum.
Letters == {"x", "b", "i", "m", "p", "o", "r", "t", "w", "s"}
Digits == {"1"}
isalpha(ch) == ch \in Letters
isalnum(ch) == ch \in Letters \cup Digits
Quotes == {"'", "\""}
\* the query characters a caller may send
Alphabet == {"x", "b", "1", "'", "\"", "(", ")", ".", ";"}
black_list == {<<"i", "m", "p", "o", "r", "t">>}

\* The locals of _getEvalStr; var_name <<>> and end_quote_char "" are None,
\* i counts from 1, pc is "call", "loop", "return" or "raise".
NoScan == [pc |-> "idle", i |-> 1, eval_str |-> <<>>, var_name |-> <<>>,
           end_quote_char |-> "", var_count |-> 0, paren_count |-> 0,
           msg |-> ""]
StartScan == [NoScan EXCEPT !.pc = "call"]
Raise(s, m) == [s EXCEPT !.pc = "raise", !.msg = m]

\* "rows['" + var_name + "']"
RowRef(var_name) == <<"r", "o", "w", "s", "[", "'">> \o var_name \o <<"'", "]">>

\* the black list test before the loop
EvalEnter(fn, s) ==
    IF black_list \cap fn # {} THEN Raise(s, "invalid field name")
    ELSE [s EXCEPT !.pc = "loop"]

\* the part of one iteration that ends a buffered variable
EvalEndVar(q, fn, s) ==
    IF s.var_name # <<>> /\ ~isalnum(q[s.i])
    THEN IF s.var_name \notin fn THEN Raise(s, "unknown field name")
         ELSE [s EXCEPT !.eval_str = @ \o RowRef(s.var_name),
                        !.var_name = <<>>, !.var_count = @ + 1]
    ELSE s

\* the part of one iteration that consumes the character
EvalChar(q, s) ==
    LET ch == q[s.i]
        ch_next == IF s.i + 1 <= Len(q) THEN q[s.i + 1] ELSE ""
        copied == [s EXCEPT !.eval_str = Append(@, ch), !.i = @ + 1]
    IN  IF s.end_quote_char # ""
        THEN [copied EXCEPT !.end_quote_char = IF ch = s.end_quote_char THEN "" ELSE @]
        ELSE IF ch \in Quotes THEN [copied EXCEPT !.end_quote_char = ch]
        ELSE IF isalpha(ch)
             THEN IF ch = "b" /\ ch_next \in Quotes THEN copied
                  ELSE [s EXCEPT !.var_name = Append(@, ch), !.i = @ + 1]
        ELSE IF ch = "(" THEN [copied EXCEPT !.paren_count = @ + 1]
        ELSE IF ch = ")"
             THEN IF s.paren_count - 1 < 0
                  THEN Raise([s EXCEPT !.paren_count = @ - 1], "Mismatched paren")
                  ELSE [copied EXCEPT !.paren_count = @ - 1]
        ELSE copied

\* one iteration of the while loop
EvalIter(q, fn, s) ==
    IF EvalEndVar(q, fn, s).pc = "raise" THEN EvalEndVar(q, fn, s)
    ELSE EvalChar(q, EvalEndVar(q, fn, s))

\* the tests after the loop without the test of the parenthesis depth
EvalLeaveUnbalanced(s) ==
    IF s.end_quote_char # "" THEN Raise(s, "no matching quote character")
    ELSE IF s.var_count = 0 THEN Raise(s, "No field value")
    ELSE [s EXCEPT !.pc = "return"]

\* the tests after the loop
EvalLeave(s) ==
    IF s.end_quote_char # "" THEN Raise(s, "no matching quote character")
    ELSE IF s.var_count = 0 THEN Raise(s, "No field value")
    ELSE IF s.paren_count # 0 THEN Raise(s, "Mismatched paren")
    ELSE [s EXCEPT !.pc = "return"]

\* ------------------------------------------------------------------ spec
NoCall == [op |-> "none", res |-> "", col |-> "", uuid |-> NoUuid,
           child |-> NoUuid, name |-> "", user |-> 0, val |-> NoAcl, keys |-> {},
           path |-> <<>>, limit |-> 0, uuids |-> <<>>, items |-> <<>>,
           objType |-> "", useRoot |-> FALSE, time |-> 0]

\* The files a handle is opened on: an empty file, a file with one dataset
\* under the root, a file whose group /a holds a user-defined link, and a
\* file with a soft link /b to the missing path /a.
Files == {
    [kind |-> [o \in Objs |-> IF o = RootObj THEN "group" ELSE "free"],
     links |-> [o \in Objs |-> IF o = RootObj
                               THEN [EmptyGroup EXCEPT !["b"] = SoftLink("a")]
                               ELSE EmptyGroup]],
    [kind |-> [o \in Objs |-> IF o = RootObj THEN "group" ELSE "free"],
     links |-> [o \in Objs |-> EmptyGroup]],
    [kind |-> [o \in Objs |-> IF o = RootObj THEN "group"
                              ELSE IF o = 1 THEN "dataset" ELSE "free"],
     links |-> [o \in Objs |-> IF o = RootObj
                               THEN [EmptyGroup EXCEPT !["a"] = HardLink(1)]
                               ELSE EmptyGroup]],
    [kind |-> [o \in Objs |-> IF o \in {RootObj, 1} THEN "group" ELSE "free"],
     links |-> [o \in Objs |-> IF o = RootObj
                               THEN [EmptyGroup EXCEPT !["a"] = HardLink(1)]
                               ELSE IF o = 1
                               THEN [EmptyGroup EXCEPT !["b"] = UDLink]
                               ELSE EmptyGroup]]
}

Store(S) ==
    /\ kind' = S.kind /\ links' = S.links /\ anon' = S.anon /\ refs' = S.refs
    /\ addr' = S.addr /\ ctime' = S.ctime /\ mtime' = S.mtime /\ acl' = S.acl
    /\ inited' = S.inited /\ used' = S.used
    /\ nops' = nops + 1
    /\ UNCHANGED <<update_timestamps, readonly, query, field_names, scan,
                   args, ret>>

Apply(S) == Store(S) /\ UNCHANGED <<created, tmp, dblink>>
Created(r, id) ==
    /\ Store(r.st) /\ UNCHANGED <<tmp, dblink>>
    /\ created' = IF r.res = "ok" THEN created \cup {id} ELSE created

Init ==
    /\ \E f \in Files : kind = f.kind /\ links = f.links
    /\ anon = [c \in Collections |-> [u \in AllUuids |-> NoObj]]
    /\ refs = [c \in Collections |-> [u \in AllUuids |-> NoObj]]
    /\ addr = [o \in Objs |-> NoUuid]
    /\ ctime = [k \in TsKeys |-> 0]
    /\ mtime = [k \in TsKeys |-> 0]
    /\ acl = [u \in AllUuids |-> <<>>]
    /\ inited = FALSE
    /\ update_timestamps \in BOOLEAN
    /\ used = {}
    /\ created = {}
    /\ nops = 0
    /\ last = NoCall
    /\ readonly = FALSE
    /\ query = <<>> /\ field_names = {} /\ scan = NoScan
    /\ args = NoArgs /\ ret = NoRet /\ tmp = NoTmp /\ dblink = NoLink

\* The UUID a create call uses: the caller's, else the next minted one.
NewId(arg) == IF arg = NoUuid
              THEN Min(UUIDs \ initFile(St, update_timestamps).used)
              ELSE arg
CanMint(arg) == arg = NoUuid => UUIDs \ initFile(St, update_timestamps).used # {}
Free == {o \in 1..MaxObj : kind[o] = "free"}
\* time.time() of the current call: the clock advances from call to call
now == FileTime + nops + 1

InitFile(h) ==
    /\ nops < h
    /\ Apply(initFile(St, update_timestamps))
    /\ last' = [NoCall EXCEPT !.op = "initFile", !.res = "ok"]

CreateGroup(h) ==
    /\ nops < h
    /\ \E arg \in {NoUuid} \cup UUIDs, o \in Free :
        /\ CanMint(arg)
        /\ LET r == IF readonly THEN Denied(St, update_timestamps)
                 ELSE createGroup(St, update_timestamps, arg, o, now) IN
            /\ Created(r, NewId(arg))
            /\ last' = [NoCall EXCEPT !.op = "createGroup", !.res = r.res,
                                      !.col = "groups", !.uuid = NewId(arg)]

CreateDataset(h) ==
    /\ nops < h
    /\ \E arg \in {NoUuid} \cup UUIDs, o \in Free :
        /\ CanMint(arg)
        /\ LET r == IF readonly THEN Denied(St, update_timestamps)
                 ELSE createDataset(St, update_timestamps, arg, o, now) IN
            /\ Created(r, NewId(arg))
            /\ last' = [NoCall EXCEPT !.op = "createDataset", !.res = r.res,
                                      !.col = "datasets", !.uuid = NewId(arg)]

CreateCommittedType(h) ==
    /\ nops < h
    /\ \E typ \in {NoUuid} \cup UUIDs, arg \in {NoUuid} \cup UUIDs :
       \E o \in IF typ = NoUuid THEN Free ELSE {NoObj} :
        /\ CanMint(arg)
        /\ LET r == IF readonly THEN Denied(St, update_timestamps)
                 ELSE createCommittedType(St, update_timestamps, typ, arg, o, now) IN
            /\ Created(r, NewId(arg))
            /\ last' = [NoCall EXCEPT !.op = "createCommittedType", !.res = r.res,
                                      !.col = "datatypes", !.uuid = NewId(arg),
                                      !.child = typ]

LinkObject(h) ==
    /\ nops < h
    /\ \E p \in AllUuids, c \in AllUuids, n \in ArgNames :
        LET r == IF readonly THEN Denied(St, update_timestamps)
                 ELSE linkObject(St, update_timestamps, p, c, n, now) IN
            /\ Apply(r.st)
            /\ last' = [NoCall EXCEPT !.op = "linkObject", !.res = r.res,
                                      !.uuid = p, !.child = c, !.name = n]

CreateSoftLink(h) ==
    /\ nops < h
    /\ \E p \in AllUuids, path \in ArgNames, n \in ArgNames :
        LET r == IF readonly THEN Denied(St, update_timestamps)
                 ELSE createSoftLink(St, update_timestamps, p, path, n, now) IN
            /\ Apply(r.st)
            /\ last' = [NoCall EXCEPT !.op = "createSoftLink", !.res = r.res,
                                      !.uuid = p, !.name = n]

CreateExternalLink(h) ==
    /\ nops < h
    /\ \E p \in AllUuids, n \in ArgNames :
        LET r == IF readonly THEN Denied(St, update_timestamps)
                 ELSE createExternalLink(St, update_timestamps, p, n, now) IN
            /\ Apply(r.st)
            /\ last' = [NoCall EXCEPT !.op = "createExternalLink", !.res = r.res,
                                      !.uuid = p, !.name = n]

UnlinkItem(h) ==
    /\ nops < h
    /\ \E g \in AllUuids, n \in ArgNames :
        LET r == IF readonly THEN Result(St, "EPERM")
                 ELSE unlinkItem(St, update_timestamps, g, n, now) IN
            /\ Apply(r.st)
            /\ last' = [NoCall EXCEPT !.op = "unlinkItem", !.res = r.res,
                                      !.uuid = g, !.name = n]

DeleteObjectByUuid(h) ==
    /\ nops < h
    /\ \E col \in Collections, u \in AllUuids :
        LET r == IF readonly THEN Denied(St, update_timestamps)
                 ELSE deleteObjectByUuid(St, update_timestamps, col, u, now) IN
            /\ Apply(r.st)
            /\ last' = [NoCall EXCEPT !.op = "deleteObjectByUuid", !.res = r.res,
                                      !.col = col, !.uuid = u]

\* The ACL dicts callers pass: complete entries and partial updates.
AclDicts(user) == {
    [row |-> AclRow(user, 0, 1, 0, 0, 0, 0), keys |-> AclFields],
    [row |-> AclRow(user, 0, 0, 1, 0, 0, 0), keys |-> AclFields],
    [row |-> AclRow(user, 0, 0, 0, 0, 1, 0), keys |-> {"userid", "readACL"}]
}

\* setAcl, getAcl and getNumAcls use self.dbGrp, which exists once initFile
\* has run on the handle.
SetAcl(h) ==
    /\ nops < h
    /\ \E u \in AllUuids, user \in UserIds : \E d \in AclDicts(user) :
        /\ Apply(IF inited THEN setAcl(St, u, d.row, d.keys) ELSE St)
        /\ last' = [NoCall EXCEPT !.op = "setAcl",
                                  !.res = IF inited THEN "ok" ELSE "AttributeError",
                                  !.uuid = u, !.user = user, !.val = d.row,
                                  !.keys = d.keys]

GetAcl(h) ==
    /\ nops < h
    /\ \E u \in AllUuids, user \in UserIds :
        /\ Apply(St)
        /\ last' = [NoCall EXCEPT !.op = "getAcl",
                                  !.res = IF inited THEN "ok" ELSE "AttributeError",
                                  !.uuid = u, !.user = user,
                                  !.val = IF inited THEN getAcl(St, u, user) ELSE NoAcl]

\* the keys callers ask for: an object, a link name, an attribute name
Scopes == {<<"object", "">>} \cup ({"link", "attribute"} \X Names)

GetModifiedTime(h) ==
    /\ nops < h
    /\ \E u \in AllUuids, k \in Scopes, useRoot \in BOOLEAN :
        LET t == getModifiedTime(St, u, k[1], k[2], useRoot) IN
            /\ Apply(St)
            /\ last' = [NoCall EXCEPT
                    !.op = "getModifiedTime", !.uuid = u, !.objType = k[1],
                    !.name = k[2], !.useRoot = useRoot,
                    !.res = IF ~inited THEN "AttributeError"
                            ELSE IF t = TsKeyError THEN "KeyError" ELSE "ok",
                    !.time = IF inited /\ t # TsKeyError THEN t ELSE 0]

GetCreateTime(h) ==
    /\ nops < h
    /\ \E u \in AllUuids, k \in Scopes, useRoot \in BOOLEAN :
        LET t == getCreateTime(St, u, k[1], k[2], useRoot) IN
            /\ Apply(St)
            /\ last' = [NoCall EXCEPT
                    !.op = "getCreateTime", !.uuid = u, !.objType = k[1],
                    !.name = k[2], !.useRoot = useRoot,
                    !.res = IF ~inited THEN "AttributeError" ELSE "ok",
                    !.time = IF inited THEN t ELSE 0]

ResizeDataset(h) ==
    /\ nops < h
    /\ \E u \in AllUuids, fits \in BOOLEAN :
        LET r == resizeDataset(St, update_timestamps, readonly, u, fits, now) IN
            /\ Apply(r.st)
            /\ last' = [NoCall EXCEPT !.op = "resizeDataset", !.res = r.res,
                                      !.col = "datasets", !.uuid = u]

SetDatasetValuesByUuid(h) ==
    /\ nops < h
    /\ \E u \in AllUuids, format_ok \in BOOLEAN, fits \in BOOLEAN :
        LET r == setDatasetValuesByUuid(St, update_timestamps, readonly, u,
                                        format_ok, fits, now) IN
            /\ Apply(r.st)
            /\ last' = [NoCall EXCEPT !.op = "setDatasetValuesByUuid", !.res = r.res,
                                      !.col = "datasets", !.uuid = u]

SetDatasetValuesByPointSelection(h) ==
    /\ nops < h
    /\ \E u \in AllUuids, format_ok \in BOOLEAN, fits \in BOOLEAN :
        LET r == setDatasetValuesByPointSelection(St, update_timestamps, readonly, u,
                                                  format_ok, fits, now) IN
            /\ Apply(r.st)
            /\ last' = [NoCall EXCEPT !.op = "setDatasetValuesByPointSelection",
                                      !.res = r.res, !.col = "datasets", !.uuid = u]

GetCollection(h) ==
    /\ nops < h
    /\ \E c \in Collections, marker \in {NoUuid} \cup UUIDs, limit \in NoLimit..MaxUuid :
        LET r == getCollection(St, update_timestamps, c, marker, limit) IN
            /\ Apply(r.st)
            /\ last' = [NoCall EXCEPT !.op = "getCollection", !.res = r.res,
                                      !.col = c, !.uuid = marker, !.limit = limit,
                                      !.uuids = r.uuids]

GetLinkItems(h) ==
    /\ nops < h
    /\ \E g \in AllUuids, marker \in {""} \cup Names, limit \in 0..Cardinality(Names) :
        LET r == getLinkItems(St, update_timestamps, g, marker, limit) IN
            /\ Apply(r.st)
            /\ last' = [NoCall EXCEPT !.op = "getLinkItems", !.res = r.res,
                                      !.uuid = g, !.name = marker, !.limit = limit,
                                      !.items = r.items]

Paths == {<<>>} \cup {<<n>> : n \in Names} \cup {<<n, k>> : n \in Names, k \in Names}

GetUUIDByPath(h) ==
    /\ nops < h
    /\ \E path \in Paths :
        LET r == getUUIDByPath(St, update_timestamps, path) IN
            /\ Apply(r.st)
            /\ last' = [NoCall EXCEPT !.op = "getUUIDByPath", !.res = r.res,
                                      !.uuid = r.uuid, !.path = path]

\* _getEvalStr(query, field_names), one step per test and per iteration
GetEvalStrEnter ==
    /\ scan.pc = "call"
    /\ scan' = EvalEnter(field_names, scan)
    /\ UNCHANGED <<kind, links, anon, refs, addr, ctime, mtime, acl, inited,
                   update_timestamps, readonly, used, created, nops, last,
                   query, field_names, args, ret, tmp, dblink>>

GetEvalStrIter ==
    /\ scan.pc = "loop" /\ scan.i <= Len(query)
    /\ scan' = EvalIter(query, field_names, scan)
    /\ UNCHANGED <<kind, links, anon, refs, addr, ctime, mtime, acl, inited,
                   update_timestamps, readonly, used, created, nops, last,
                   query, field_names, args, ret, tmp, dblink>>

GetEvalStrLeave ==
    /\ scan.pc = "loop" /\ scan.i > Len(query)
    /\ scan' = EvalLeave(scan)
    /\ UNCHANGED <<kind, links, anon, refs, addr, ctime, mtime, acl, inited,
                   update_timestamps, readonly, used, created, nops, last,
                   query, field_names, args, ret, tmp, dblink>>

\* Handles that make at most h calls.
Calls(h) ==
    \/ InitFile(h)
    \/ CreateGroup(h)
    \/ CreateDataset(h)
    \/ CreateCommittedType(h)
    \/ LinkObject(h)
    \/ CreateSoftLink(h)
    \/ CreateExternalLink(h)
    \/ UnlinkItem(h)
    \/ DeleteObjectByUuid(h)

Next == Calls(MaxOps)

Spec == Init /\ [][Next]_vars

\* The same handles, one call longer.
NextLong == Calls(MaxOps + 1)

SpecLong == Init /\ [][NextLong]_vars

\* The ACL tables a served file may already hold for its root group.
RootAcls == {<<>>,
             <<AclRow(0, 0, 1, 0, 0, 0, 0)>>,
             <<AclRow(1, 0, 0, 1, 0, 0, 0)>>}

\* A handle on an initialised file with one dataset under the root.
InitAcl ==
    /\ \E ut \in BOOLEAN, racl \in RootAcls :
        LET S == initFile(
                   [kind |-> [o \in Objs |-> IF o = RootObj THEN "group"
                                             ELSE IF o = 1 THEN "dataset" ELSE "free"],
                    links |-> [o \in Objs |-> IF o = RootObj
                                              THEN [EmptyGroup EXCEPT !["a"] = HardLink(1)]
                                              ELSE EmptyGroup],
                    anon |-> [c \in Collections |-> [u \in AllUuids |-> NoObj]],
                    refs |-> [c \in Collections |-> [u \in AllUuids |-> NoObj]],
                    addr |-> [o \in Objs |-> NoUuid],
                    ctime |-> [k \in TsKeys |-> 0],
                    mtime |-> [k \in TsKeys |-> 0],
                    acl |-> [u \in AllUuids |-> IF u = RootUuid THEN racl ELSE <<>>],
                    inited |-> FALSE, used |-> {}], ut)
        IN  /\ kind = S.kind /\ links = S.links /\ anon = S.anon /\ refs = S.refs
            /\ addr = S.addr /\ ctime = S.ctime /\ mtime = S.mtime /\ acl = S.acl
            /\ inited = S.inited /\ used = S.used
            /\ update_timestamps = ut
    /\ created = {}
    /\ nops = 0
    /\ last = NoCall
    /\ readonly = FALSE
    /\ query = <<>> /\ field_names = {} /\ scan = NoScan
    /\ args = NoArgs /\ ret = NoRet /\ tmp = NoTmp /\ dblink = NoLink

NextAcl ==
    \/ SetAcl(MaxOps)
    \/ GetAcl(MaxOps)

SpecAcl == InitAcl /\ [][NextAcl]_vars

\* The ACL calls together with the deletion of objects.
NextAclDelete ==
    \/ SetAcl(MaxOps)
    \/ GetAcl(MaxOps)
    \/ DeleteObjectByUuid(MaxOps)

SpecAclDelete == InitAcl /\ [][NextAclDelete]_vars

\* The queries of at most MaxQuery characters and the field-name lists
\* _getEvalStr is called with.
Queries == UNION {[1..n -> Alphabet] : n \in 0..MaxQuery}
FieldNameSets == {{<<"x">>}, {<<"x">>, <<"b">>}, {<<"x">>, <<"x", "1">>},
                  {<<"x">>, <<"i", "m", "p", "o", "r", "t">>}}

InitEval ==
    /\ kind = [o \in Objs |-> IF o = RootObj THEN "group" ELSE "free"]
    /\ links = [o \in Objs |-> EmptyGroup]
    /\ anon = [c \in Collections |-> [u \in AllUuids |-> NoObj]]
    /\ refs = [c \in Collections |-> [u \in AllUuids |-> NoObj]]
    /\ addr = [o \in Objs |-> NoUuid]
    /\ ctime = [k \in TsKeys |-> 0]
    /\ mtime = [k \in TsKeys |-> 0]
    /\ acl = [u \in AllUuids |-> <<>>]
    /\ inited = FALSE
    /\ update_timestamps = TRUE
    /\ used = {}
    /\ created = {}
    /\ nops = 0
    /\ last = NoCall
    /\ readonly = FALSE
    /\ query \in Queries
    /\ field_names \in FieldNameSets
    /\ scan = StartScan
    /\ args = NoArgs /\ ret = NoRet /\ tmp = NoTmp /\ dblink = NoLink

NextEval ==
    \/ GetEvalStrEnter
    \/ GetEvalStrIter
    \/ GetEvalStrLeave

SpecEval == InitEval /\ [][NextEval]_vars

\* The files initFile may meet: the root and address 1 may be groups, every
\* allocated object is reached from the root through hard links, and a link
\* is a hard link to an object other than the root or a soft link to /a.
FileLinks == {NoLink, SoftLink("a")} \cup {HardLink(o) : o \in 1..MaxObj}
FileKinds == {k \in [Objs -> {"free", "group", "dataset", "datatype"}] :
                 /\ k[RootObj] = "group"
                 /\ k[1] # "datatype"
                 /\ \A o \in 2..MaxObj : k[o] # "group"}
ScannedFiles ==
    {f \in {[kind |-> k,
             links |-> [o \in Objs |-> IF o \in DOMAIN gl /\ k[o] = "group"
                                       THEN gl[o] ELSE EmptyGroup]] :
                k \in FileKinds, gl \in [{RootObj, 1} -> [Names -> FileLinks]]} :
        /\ \A o \in Objs, n \in Names :
               f.links[o][n].cls = "hard" => f.kind[f.links[o][n].tgt] # "free"
        /\ \A o \in Objs : f.kind[o] # "free" => o \in Reach(f, {RootObj})}

InitScan ==
    /\ \E f \in ScannedFiles : kind = f.kind /\ links = f.links
    /\ anon = [c \in Collections |-> [u \in AllUuids |-> NoObj]]
    /\ refs = [c \in Collections |-> [u \in AllUuids |-> NoObj]]
    /\ addr = [o \in Objs |-> NoUuid]
    /\ ctime = [k \in TsKeys |-> 0]
    /\ mtime = [k \in TsKeys |-> 0]
    /\ acl = [u \in AllUuids |-> <<>>]
    /\ inited = FALSE
    /\ update_timestamps \in BOOLEAN
    /\ used = {}
    /\ created = {}
    /\ nops = 0
    /\ last = NoCall
    /\ readonly = FALSE
    /\ query = <<>> /\ field_names = {} /\ scan = NoScan
    /\ args = NoArgs /\ ret = NoRet /\ tmp = NoTmp /\ dblink = NoLink

NextScan ==
    \/ InitFile(MaxOps)
    \/ GetUUIDByPath(MaxOps)

SpecScan == InitScan /\ [][NextScan]_vars

\* Handles that create objects, link them and list the collections.
NextCollection ==
    \/ CreateGroup(MaxOps + 1)
    \/ CreateDataset(MaxOps + 1)
    \/ LinkObject(MaxOps + 1)
    \/ GetCollection(MaxOps + 1)

SpecCollection == Init /\ [][NextCollection]_vars

\* Handles that create groups, make links and list the links of a group.
NextLinks ==
    \/ CreateGroup(MaxOps + 1)
    \/ LinkObject(MaxOps + 1)
    \/ CreateSoftLink(MaxOps + 1)
    \/ GetLinkItems(MaxOps + 1)

SpecLinks == Init /\ [][NextLinks]_vars

\* Handles opened read-only on the files of Init, and the calls that write.
InitReadonly ==
    /\ \E f \in Files : kind = f.kind /\ links = f.links
    /\ anon = [c \in Collections |-> [u \in AllUuids |-> NoObj]]
    /\ refs = [c \in Collections |-> [u \in AllUuids |-> NoObj]]
    /\ addr = [o \in Objs |-> NoUuid]
    /\ ctime = [k \in TsKeys |-> 0]
    /\ mtime = [k \in TsKeys |-> 0]
    /\ acl = [u \in AllUuids |-> <<>>]
    /\ inited = FALSE
    /\ update_timestamps \in BOOLEAN
    /\ used = {}
    /\ created = {}
    /\ nops = 0
    /\ last = NoCall
    /\ readonly = TRUE
    /\ query = <<>> /\ field_names = {} /\ scan = NoScan
    /\ args = NoArgs /\ ret = NoRet /\ tmp = NoTmp /\ dblink = NoLink

Writes(h) ==
    \/ CreateGroup(h)
    \/ CreateDataset(h)
    \/ CreateCommittedType(h)
    \/ LinkObject(h)
    \/ CreateSoftLink(h)
    \/ CreateExternalLink(h)
    \/ UnlinkItem(h)
    \/ DeleteObjectByUuid(h)
    \/ ResizeDataset(h)
    \/ SetDatasetValuesByUuid(h)
    \/ SetDatasetValuesByPointSelection(h)

NextReadonly == Writes(MaxOps)

SpecReadonly == InitReadonly /\ [][NextReadonly]_vars

\* Handles that create, link and delete objects and read the timestamps.
NextTime ==
    \/ InitFile(MaxOps)
    \/ CreateGroup(MaxOps)
    \/ LinkObject(MaxOps)
    \/ DeleteObjectByUuid(MaxOps)
    \/ GetModifiedTime(MaxOps)
    \/ GetCreateTime(MaxOps)

SpecTime == Init /\ [][NextTime]_vars

\* ------------------------------------------------------ region references
MaxRank == 2         \* dimensions of a dataset
MaxCoord == 3        \* largest coordinate of a selection

Ranks == 1 .. MaxRank
Coords == (0 - 1) .. MaxCoord
CoordSeqs == UNION {[1 .. n -> Coords] : n \in Ranks}

\* h5py: select_hyperslab(start, count) on an empty selection, read back by
\* get_select_hyper_blocklist(): one block, given by its first and its last
\* element.
select_hyperslab(start, count) ==
    <<start, [i \in DOMAIN start |-> start[i] + count[i] - 1]>>

\* The first dimension the loop of createRegionReference rejects, 0 if none
RECURSIVE BadDim(_, _, _, _)
BadDim(start, stop, rank, i) ==
    IF i > rank THEN 0
    ELSE IF start[i] < 0 \/ stop[i] <= start[i] THEN i
    ELSE BadDim(start, stop, rank, i + 1)

\* createRegionReference(item) for select_type H5S_SEL_HYPERSLABS and a
\* selection of the one slab (start, stop) on a dataset of the given rank
createRegionReference(rank, start, stop) ==
    IF Len(start) # rank THEN [res |-> "EINVAL", ref |-> <<>>]
    ELSE IF Len(stop) # rank THEN [res |-> "EINVAL", ref |-> <<>>]
    ELSE IF BadDim(start, stop, rank, 1) # 0
         THEN [res |-> "EINVAL", ref |-> <<>>]
    ELSE [res |-> "ok",
          ref |-> <<select_hyperslab(start,
                        [i \in 1 .. rank |-> stop[i] - start[i]])>>]

\* The block list as the library returns it
getRegionReferenceRaw(ref) == ref

\* getRegionReference(regionRef): the selection of a hyperslab reference
getRegionReference(ref) ==
    [k \in DOMAIN ref |->
        <<ref[k][1], [i \in DOMAIN ref[k][2] |-> ref[k][2][i] + 1]>>]

InitRegion ==
    /\ kind = [o \in Objs |-> IF o = RootObj THEN "group" ELSE "free"]
    /\ links = [o \in Objs |-> EmptyGroup]
    /\ anon = [c \in Collections |-> [u \in AllUuids |-> NoObj]]
    /\ refs = [c \in Collections |-> [u \in AllUuids |-> NoObj]]
    /\ addr = [o \in Objs |-> NoUuid]
    /\ ctime = [k \in TsKeys |-> 0]
    /\ mtime = [k \in TsKeys |-> 0]
    /\ acl = [u \in AllUuids |-> <<>>]
    /\ inited = FALSE
    /\ update_timestamps = TRUE
    /\ used = {}
    /\ created = {}
    /\ nops = 0
    /\ last = NoCall
    /\ readonly = FALSE
    /\ query = <<>> /\ field_names = {} /\ scan = NoScan /\ tmp = NoTmp /\ dblink = NoLink
    /\ \E rank \in Ranks, start \in CoordSeqs, stop \in CoordSeqs :
           args = [fn |-> "createRegionReference", rank |-> rank,
                   start |-> start, stop |-> stop]
    /\ ret = [pc |-> "call"]

Idle ==
    UNCHANGED <<kind, links, anon, refs, addr, ctime, mtime, acl, inited,
                update_timestamps, readonly, used, created, nops, last,
                query, field_names, scan, tmp, dblink>>

CreateRegionReference ==
    /\ args.fn = "createRegionReference" /\ ret.pc = "call"
    /\ LET r == createRegionReference(args.rank, args.start, args.stop) IN
           ret' = [pc |-> IF r.res = "ok" THEN "created" ELSE "raise",
                   res |-> r.res, ref |-> r.ref]
    /\ UNCHANGED args
    /\ Idle

GetRegionReference ==
    /\ args.fn = "createRegionReference" /\ ret.pc = "created"
    /\ ret' = [pc |-> "read", res |-> "ok", ref |-> ret.ref,
               selection |-> getRegionReference(ret.ref)]
    /\ UNCHANGED args
    /\ Idle

NextRegion ==
    \/ CreateRegionReference
    \/ GetRegionReference

SpecRegion == InitRegion /\ [][NextRegion]_vars

\* ------------------------------------------------------- type descriptors
MaxStrLen == 2       \* length of a fixed string, size of an opaque type
MaxFields == 2       \* fields of a compound type

\* The string "H5T_VARIABLE", which stands where a size or a length would
H5T_VARIABLE == 0 - 1

\* int(s) for a string of decimal digits
DigitSeq == <<"0", "1", "2", "3", "4", "5", "6", "7", "8", "9">>
DigitOf(c) == CHOOSE d \in 0 .. 9 : DigitSeq[d + 1] = c
RECURSIVE int(_)
int(s) ==
    IF s = <<>> THEN 0
    ELSE 10 * int(SubSeq(s, 1, Len(s) - 1)) + DigitOf(s[Len(s)])

\* The names of the predefined types, a string cut where the code cuts it:
\* the prefix, the digits, the byte order.
IntWidths == {<<"8">>, <<"1", "6">>, <<"3", "2">>, <<"6", "4">>}
FloatWidths == {<<"3", "2">>, <<"6", "4">>}
ByteOrders == {"LE", "BE"}
PredefinedInts ==
    {[prefix |-> p, num_bits |-> w, order |-> o] :
        p \in {"H5T_STD_I", "H5T_STD_U"}, w \in IntWidths, o \in ByteOrders}
PredefinedFloats ==
    {[prefix |-> "H5T_IEEE_F", num_bits |-> w, order |-> o] :
        w \in FloatWidths, o \in ByteOrders}

\* A descriptor is a name (a record without "class") or a dict (with it).
IsName(typeItem) == "class" \notin DOMAIN typeItem

IntegerTypes == {[class |-> "H5T_INTEGER", base |-> b] : b \in PredefinedInts}
FloatTypes == {[class |-> "H5T_FLOAT", base |-> b] : b \in PredefinedFloats}
StringTypes ==
    {[class |-> "H5T_STRING", length |-> n, charSet |-> "H5T_CSET_ASCII",
      strPad |-> "H5T_STR_NULLPAD"] : n \in (1 .. MaxStrLen) \cup {H5T_VARIABLE}}
OpaqueTypes == {[class |-> "H5T_OPAQUE", size |-> n] : n \in 1 .. MaxStrLen}
ReferenceNames ==
    {[prefix |-> p, num_bits |-> <<>>, order |-> ""] :
        p \in {"H5T_STD_REF_OBJ", "H5T_STD_REF_DSETREG"}}
ReferenceTypes == {[class |-> "H5T_REFERENCE", base |-> b] : b \in ReferenceNames}
Scalars ==
    PredefinedInts \cup PredefinedFloats \cup IntegerTypes \cup FloatTypes
        \cup StringTypes \cup OpaqueTypes \cup ReferenceTypes

\* The types of the second and later fields of a compound
FieldTypes ==
    {[prefix |-> "H5T_STD_I", num_bits |-> <<"3", "2">>, order |-> "LE"],
     [class |-> "H5T_FLOAT",
      base |-> [prefix |-> "H5T_IEEE_F", num_bits |-> <<"6", "4">>,
                order |-> "BE"]],
     [class |-> "H5T_STRING", length |-> MaxStrLen,
      charSet |-> "H5T_CSET_ASCII", strPad |-> "H5T_STR_NULLPAD"],
     [class |-> "H5T_STRING", length |-> H5T_VARIABLE,
      charSet |-> "H5T_CSET_ASCII", strPad |-> "H5T_STR_NULLPAD"],
     [class |-> "H5T_REFERENCE",
      base |-> [prefix |-> "H5T_STD_REF_OBJ", num_bits |-> <<>>,
                order |-> ""]]}

DimSeqs == UNION {[1 .. n -> 1 .. MaxCoord] : n \in Ranks}
Mappings == {[FALSE |-> 0, TRUE |-> 1], [a |-> 0, b |-> 1, c |-> 2]}
FieldSeqs == UNION {[1 .. n -> FieldTypes] : n \in 0 .. (MaxFields - 1)}
Fields(types) == [i \in DOMAIN types |-> [name |-> i, type |-> types[i]]]

VlenTypes(S) ==
    {[class |-> "H5T_VLEN", size |-> H5T_VARIABLE, base |-> b] : b \in S}
ArrayTypes(S) ==
    {[class |-> "H5T_ARRAY", dims |-> d, base |-> b] : d \in DimSeqs, b \in S}
CompoundTypes(S) ==
    {[class |-> "H5T_COMPOUND", fields |-> Fields(<<t>> \o rest)] :
        t \in S, rest \in FieldSeqs}
EnumTypes ==
    {[class |-> "H5T_ENUM", base |-> b, mapping |-> m] :
        b \in IntegerTypes, m \in Mappings}
Over(S) == VlenTypes(S) \cup ArrayTypes(S) \cup CompoundTypes(S)

\* Descriptors of up to two levels over the scalar types
TypeItems ==
    Scalars \cup EnumTypes \cup Over(Scalars \cup EnumTypes)
        \cup Over(Over(FieldTypes))

RECURSIVE Product(_)
Product(dims) ==
    IF dims = <<>> THEN 1 ELSE Head(dims) * Product(Tail(dims))

RECURSIVE getItemSize(_)
\* the loop over the fields of a compound, from field i with item_size so far
RECURSIVE SumFields(_, _, _)
SumFields(fields, i, item_size) ==
    IF i > Len(fields) THEN item_size
    ELSE LET subtype_size == getItemSize(fields[i].type) IN
         IF subtype_size = H5T_VARIABLE THEN H5T_VARIABLE
         ELSE SumFields(fields, i + 1, item_size + subtype_size)

\* getItemSize without the multiplication by dims
getItemSizeOfBase(typeItem) ==
    IF IsName(typeItem) THEN int(typeItem.num_bits) \div 8
    ELSE CASE typeItem.class \in {"H5T_INTEGER", "H5T_FLOAT", "H5T_ARRAY",
                                  "H5T_ENUM"} -> getItemSize(typeItem.base)
           [] typeItem.class = "H5T_STRING" -> typeItem.length
           [] typeItem.class \in {"H5T_VLEN", "H5T_REFERENCE"} -> H5T_VARIABLE
           [] typeItem.class = "H5T_OPAQUE" -> typeItem.size
           [] typeItem.class = "H5T_COMPOUND" ->
                  SumFields(typeItem.fields, 1, 0)

\* getItemSize(typeItem)
getItemSize(typeItem) ==
    IF IsName(typeItem) THEN int(typeItem.num_bits) \div 8
    ELSE LET item_size ==
                 CASE typeItem.class \in {"H5T_INTEGER", "H5T_FLOAT",
                                          "H5T_ARRAY", "H5T_ENUM"} ->
                          getItemSize(typeItem.base)
                   [] typeItem.class = "H5T_STRING" -> typeItem.length
                   [] typeItem.class \in {"H5T_VLEN", "H5T_REFERENCE"} ->
                          H5T_VARIABLE
                   [] typeItem.class = "H5T_OPAQUE" -> typeItem.size
                   [] typeItem.class = "H5T_COMPOUND" ->
                          SumFields(typeItem.fields, 1, 0)
         IN IF "dims" \in DOMAIN typeItem /\ item_size # H5T_VARIABLE
            THEN item_size * Product(typeItem.dims)
            ELSE item_size

InitItemSize ==
    /\ kind = [o \in Objs |-> IF o = RootObj THEN "group" ELSE "free"]
    /\ links = [o \in Objs |-> EmptyGroup]
    /\ anon = [c \in Collections |-> [u \in AllUuids |-> NoObj]]
    /\ refs = [c \in Collections |-> [u \in AllUuids |-> NoObj]]
    /\ addr = [o \in Objs |-> NoUuid]
    /\ ctime = [k \in TsKeys |-> 0]
    /\ mtime = [k \in TsKeys |-> 0]
    /\ acl = [u \in AllUuids |-> <<>>]
    /\ inited = FALSE
    /\ update_timestamps = TRUE
    /\ used = {}
    /\ created = {}
    /\ nops = 0
    /\ last = NoCall
    /\ readonly = FALSE
    /\ query = <<>> /\ field_names = {} /\ scan = NoScan /\ tmp = NoTmp /\ dblink = NoLink
    /\ \E typeItem \in TypeItems :
           args = [fn |-> "getItemSize", typeItem |-> typeItem]
    /\ ret = [pc |-> "call"]

GetItemSize ==
    /\ args.fn = "getItemSize" /\ ret.pc = "call"
    /\ ret' = [pc |-> "return", item_size |-> getItemSize(args.typeItem)]
    /\ UNCHANGED args
    /\ Idle

NextItemSize == GetItemSize

SpecItemSize == InitItemSize /\ [][NextItemSize]_vars

\* ------------------------------------------------------ type conversion
\* A numpy dtype: kind, itemsize and byteorder as numpy reports them, the
\* fields of a structured type (len(dt) is their number), the shape and base
\* of a subarray type, and what h5py attached to it: "vlen_bytes",
\* "vlen_str", "vlen" (of base), "ref_obj", "ref_region" or "enum" (with
\* mapping).
dtype(code, itemsize, byteorder) ==
    [kind |-> code, itemsize |-> itemsize, byteorder |-> byteorder,
     fields |-> <<>>, shape |-> <<>>, base |-> <<>>, special |-> "",
     mapping |-> <<>>]
TypeError == dtype("TypeError", 0, "")

\* np.dtype(endian + code) on a little-endian host
np_dtype(endian, code, itemsize) ==
    dtype(code, itemsize,
          IF itemsize = 1 THEN "|" ELSE IF endian = "<" THEN "=" ELSE ">")

\* getNumpyTypename(hdf5TypeName, typeClass) followed by np.dtype
getNumpyTypename(hdf5TypeName, typeClass) ==
    LET endian == IF hdf5TypeName.order = "BE" THEN ">" ELSE "<"
        key == hdf5TypeName.prefix
        size == int(hdf5TypeName.num_bits) \div 8
    IN  IF key \in {"H5T_STD_I", "H5T_STD_U"}
           /\ hdf5TypeName.num_bits \in IntWidths
           /\ typeClass \in {"", "H5T_INTEGER"}
        THEN np_dtype(endian, IF key = "H5T_STD_I" THEN "i" ELSE "u", size)
        ELSE IF key = "H5T_IEEE_F" /\ hdf5TypeName.num_bits \in FloatWidths
                /\ typeClass \in {"", "H5T_FLOAT"}
        THEN np_dtype(endian, "f", size)
        ELSE TypeError

RECURSIVE createDataType(_)
RECURSIVE createBaseDataType(_)
createBaseDataType(typeItem) ==
    IF IsName(typeItem) THEN getNumpyTypename(typeItem, "")
    ELSE LET class == typeItem.class IN
    CASE class \in {"H5T_INTEGER", "H5T_FLOAT"} ->
             getNumpyTypename(typeItem.base, class)
      [] class = "H5T_STRING" ->
             IF typeItem.length = H5T_VARIABLE
             THEN IF typeItem.charSet = "H5T_CSET_ASCII"
                  THEN [dtype("O", 8, "|") EXCEPT !.special = "vlen_bytes"]
                  ELSE IF typeItem.charSet = "H5T_CSET_UTF8"
                  THEN [dtype("O", 8, "|") EXCEPT !.special = "vlen_str"]
                  ELSE TypeError
             ELSE IF typeItem.charSet = "H5T_CSET_ASCII"
                  THEN dtype("S", typeItem.length, "|")
                  ELSE TypeError
      [] class = "H5T_VLEN" ->
             LET baseType == createBaseDataType(typeItem.base) IN
             IF baseType.kind = "TypeError" THEN TypeError
             ELSE [dtype("O", 8, "|") EXCEPT !.special = "vlen",
                                             !.base = baseType]
      [] class = "H5T_OPAQUE" ->
             IF typeItem.size <= 0 THEN TypeError
             ELSE dtype("V", typeItem.size, "|")
      [] class = "H5T_ARRAY" ->
             IF ~IsName(typeItem.base)
                /\ typeItem.base.class \notin
                       {"H5T_INTEGER", "H5T_FLOAT", "H5T_STRING"}
             THEN TypeError
             ELSE LET dt_base == createDataType(typeItem.base) IN
                  IF dt_base.kind = "TypeError" THEN TypeError
                  ELSE [dtype("V", dt_base.itemsize * Product(typeItem.dims),
                              "|")
                            EXCEPT !.shape = typeItem.dims, !.base = dt_base]
      [] class = "H5T_REFERENCE" ->
             IF typeItem.base.prefix = "H5T_STD_REF_OBJ"
             THEN [dtype("O", 8, "|") EXCEPT !.special = "ref_obj"]
             ELSE IF typeItem.base.prefix = "H5T_STD_REF_DSETREG"
             THEN [dtype("O", 8, "|") EXCEPT !.special = "ref_region"]
             ELSE TypeError
      [] class = "H5T_ENUM" ->
             IF typeItem.base.class # "H5T_INTEGER" THEN TypeError
             ELSE LET dt == createBaseDataType(typeItem.base) IN
                  IF dt.kind = "TypeError" THEN TypeError
                  ELSE IF dt.kind = "i" /\ dt.itemsize = 1
                          /\ DOMAIN typeItem.mapping = {"TRUE", "FALSE"}
                  THEN dtype("b", 1, "|")
                  ELSE [dt EXCEPT !.special = "enum",
                                  !.mapping = typeItem.mapping]
      [] OTHER -> TypeError

\* the loop of createDataType over the fields, from field i; a TypeError
\* of a field is raised by createDataType
RECURSIVE Subtypes(_, _)
Subtypes(fields, i) ==
    IF i > Len(fields) THEN <<>>
    ELSE <<[name |-> fields[i].name, dt |-> createDataType(fields[i].type)]>>
             \o Subtypes(fields, i + 1)

RECURSIVE SumSizes(_)
SumSizes(subtypes) ==
    IF subtypes = <<>> THEN 0
    ELSE Head(subtypes).dt.itemsize + SumSizes(Tail(subtypes))

\* createDataType(typeItem)
createDataType(typeItem) ==
    IF IsName(typeItem) THEN getNumpyTypename(typeItem, "")
    ELSE IF typeItem.class = "H5T_COMPOUND"
    THEN LET subtypes == Subtypes(typeItem.fields, 1) IN
         IF \E i \in DOMAIN subtypes : subtypes[i].dt.kind = "TypeError"
         THEN TypeError
         ELSE [dtype("V", SumSizes(subtypes), "|") EXCEPT !.fields = subtypes]
    ELSE createBaseDataType(typeItem)

\* predefined_int_types[dt.name] + byteorder
PredefinedName(prefix, dt) ==
    [prefix |-> prefix,
     num_bits |-> CHOOSE w \in IntWidths : int(w) = 8 * dt.itemsize,
     order |-> IF dt.byteorder = ">" THEN "BE" ELSE "LE"]

\* getTypeItem(dt)
RECURSIVE getTypeItem(_)
getTypeItem(dt) ==
    IF Len(dt.fields) > 1
    THEN [class |-> "H5T_COMPOUND",
          fields |-> [i \in DOMAIN dt.fields |->
                         [name |-> dt.fields[i].name,
                          type |-> getTypeItem(dt.fields[i].dt)]]]
    ELSE IF dt.shape # <<>>
    THEN [class |-> "H5T_ARRAY", dims |-> dt.shape,
          base |-> getTypeItem(dt.base)]
    ELSE IF dt.kind = "O"
    THEN CASE dt.special = "vlen_bytes" ->
                  [class |-> "H5T_STRING", length |-> H5T_VARIABLE,
                   charSet |-> "H5T_CSET_ASCII", strPad |-> "H5T_STR_NULLTERM"]
           [] dt.special = "vlen_str" ->
                  [class |-> "H5T_STRING", length |-> H5T_VARIABLE,
                   charSet |-> "H5T_CSET_UTF8", strPad |-> "H5T_STR_NULLTERM"]
           [] dt.special = "vlen" ->
                  [class |-> "H5T_VLEN", size |-> H5T_VARIABLE,
                   base |-> getTypeItem(dt.base)]
           [] dt.special = "ref_obj" ->
                  [class |-> "H5T_REFERENCE",
                   base |-> [prefix |-> "H5T_STD_REF_OBJ", num_bits |-> <<>>,
                             order |-> ""]]
           [] dt.special = "ref_region" ->
                  [class |-> "H5T_REFERENCE",
                   base |-> [prefix |-> "H5T_STD_REF_DSETREG",
                             num_bits |-> <<>>, order |-> ""]]
           [] OTHER -> [class |-> "TypeError"]
    ELSE IF dt.kind = "V"
    THEN [class |-> "H5T_OPAQUE", size |-> dt.itemsize, tag |-> ""]
    ELSE IF dt.kind = "S"
    THEN [class |-> "H5T_STRING", length |-> dt.itemsize,
          charSet |-> "H5T_CSET_ASCII", strPad |-> "H5T_STR_NULLPAD"]
    ELSE IF dt.kind = "b"
    THEN [class |-> "H5T_ENUM",
          base |-> [class |-> "H5T_INTEGER",
                    base |-> [prefix |-> "H5T_STD_I", num_bits |-> <<"8">>,
                              order |-> IF dt.byteorder = ">" THEN "BE"
                                        ELSE "LE"]],
          mapping |-> [FALSE |-> 0, TRUE |-> 1]]
    ELSE IF dt.kind = "f"
    THEN [class |-> "H5T_FLOAT", base |-> PredefinedName("H5T_IEEE_F", dt)]
    ELSE IF dt.kind \in {"i", "u"}
    THEN LET name == PredefinedName(IF dt.kind = "i" THEN "H5T_STD_I"
                                    ELSE "H5T_STD_U", dt)
         IN  IF dt.special = "enum"
             THEN [class |-> "H5T_ENUM",
                   base |-> [class |-> "H5T_INTEGER", base |-> name],
                   mapping |-> dt.mapping]
             ELSE [class |-> "H5T_INTEGER", base |-> name]
    ELSE [class |-> "TypeError"]

\* The descriptors createDataType accepts, each written with the keys
\* getTypeItem writes
StrPads == {"H5T_STR_NULLTERM", "H5T_STR_NULLPAD", "H5T_STR_SPACEPAD"}
PaddedStrings ==
    {[class |-> "H5T_STRING", length |-> n, charSet |-> "H5T_CSET_ASCII",
      strPad |-> p] : n \in (1 .. MaxStrLen) \cup {H5T_VARIABLE}, p \in StrPads}
    \cup {[class |-> "H5T_STRING", length |-> H5T_VARIABLE,
           charSet |-> "H5T_CSET_UTF8", strPad |-> p] : p \in StrPads}
TaggedOpaque ==
    {[class |-> "H5T_OPAQUE", size |-> n, tag |-> ""] : n \in 1 .. MaxStrLen}
Numbers == IntegerTypes \cup FloatTypes
FixedStrings == {t \in PaddedStrings : t.length # H5T_VARIABLE}
Members ==
    Numbers \cup PaddedStrings \cup TaggedOpaque \cup ReferenceTypes
        \cup EnumTypes \cup VlenTypes(Numbers \cup FixedStrings)
        \cup ArrayTypes(Numbers \cup FixedStrings)
Descriptors ==
    Members \cup
    {[class |-> "H5T_COMPOUND", fields |-> Fields(<<t>> \o rest)] :
        t \in Members,
        rest \in {r \in FieldSeqs : \A i \in DOMAIN r : ~IsName(r[i])}}

InitTypeItem ==
    /\ kind = [o \in Objs |-> IF o = RootObj THEN "group" ELSE "free"]
    /\ links = [o \in Objs |-> EmptyGroup]
    /\ anon = [c \in Collections |-> [u \in AllUuids |-> NoObj]]
    /\ refs = [c \in Collections |-> [u \in AllUuids |-> NoObj]]
    /\ addr = [o \in Objs |-> NoUuid]
    /\ ctime = [k \in TsKeys |-> 0]
    /\ mtime = [k \in TsKeys |-> 0]
    /\ acl = [u \in AllUuids |-> <<>>]
    /\ inited = FALSE
    /\ update_timestamps = TRUE
    /\ used = {}
    /\ created = {}
    /\ nops = 0
    /\ last = NoCall
    /\ readonly = FALSE
    /\ query = <<>> /\ field_names = {} /\ scan = NoScan /\ tmp = NoTmp /\ dblink = NoLink
    /\ \E typeItem \in Descriptors :
           args = [fn |-> "createDataType", typeItem |-> typeItem]
    /\ ret = [pc |-> "call"]

CreateDataType ==
    /\ args.fn = "createDataType" /\ ret.pc = "call"
    /\ LET dt == createDataType(args.typeItem) IN
           ret' = [pc |-> IF dt.kind = "TypeError" THEN "raise" ELSE "created",
                   dt |-> dt]
    /\ UNCHANGED args
    /\ Idle

GetTypeItem ==
    /\ args.fn = "createDataType" /\ ret.pc = "created"
    /\ ret' = [pc |-> "return", dt |-> ret.dt, type_info |-> getTypeItem(ret.dt)]
    /\ UNCHANGED args
    /\ Idle

NextTypeItem ==
    \/ CreateDataType
    \/ GetTypeItem

SpecTypeItem == InitTypeItem /\ [][NextTypeItem]_vars

\* -------------------------------------------------- values of a dataset
\* The test the three calls make before they touch the data:
\* itemSize == "H5T_VARIABLE" and format == "binary"
OnlyJson(dt, format) ==
    getItemSize(getTypeItem(dt)) = H5T_VARIABLE /\ format = "binary"

\* np.fromstring(data, dtype=dt) refuses a dtype that holds objects
RECURSIVE hasobject(_)
hasobject(dt) ==
    \/ dt.kind = "O"
    \/ dt.shape # <<>> /\ hasobject(dt.base)
    \/ \E i \in DOMAIN dt.fields : hasobject(dt.fields[i].dt)

\* getDatasetValuesByUuid(obj_uuid, slices, format) on a dataset of type dt
\* with a selection of its rank; data says whether the dataset was read
getDatasetValuesByUuid(dt, format) ==
    IF OnlyJson(dt, format) THEN [res |-> "EINVAL", data |-> FALSE]
    ELSE IF dt.kind = "O"
    THEN IF format # "json" THEN [res |-> "EINVAL", data |-> FALSE]
         ELSE [res |-> "ok", data |-> TRUE]
    ELSE IF dt.kind = "V" /\ Len(dt.fields) <= 1 /\ dt.shape = <<>>
    THEN [res |-> "ok", data |-> FALSE]
    ELSE [res |-> "ok", data |-> TRUE]

\* setDatasetValuesByUuid(obj_uuid, data, slices, format) on a writable
\* dataset of type dt with a valid selection; fits says whether the data has
\* the length (binary) or the shape (json) of the selection; data and mtime
\* say whether the dataset and its timestamp were written
writeDatasetValuesByUuid(dt, format, fits) ==
    IF OnlyJson(dt, format)
    THEN [res |-> "EINVAL", data |-> FALSE, mtime |-> FALSE]
    ELSE IF ~(format # "binary" /\ Len(dt.fields) > 1)
            /\ dt.special \in {"ref_obj", "ref_region"} /\ format = "binary"
    THEN [res |-> "EINVAL", data |-> FALSE, mtime |-> FALSE]
    ELSE IF ~fits THEN [res |-> "EINVAL", data |-> FALSE, mtime |-> FALSE]
    ELSE IF format = "binary" /\ hasobject(dt)
    THEN [res |-> "ValueError", data |-> FALSE, mtime |-> FALSE]
    ELSE [res |-> "ok", data |-> TRUE, mtime |-> TRUE]

\* setDatasetValuesByPointSelection(obj_uuid, data, points, format); fits
\* says whether the points lie within the dataset
writeDatasetValuesByPointSelection(dt, format, fits) ==
    IF OnlyJson(dt, format)
    THEN [res |-> "EINVAL", data |-> FALSE, mtime |-> FALSE]
    ELSE IF format = "binary" /\ hasobject(dt)
    THEN [res |-> "ValueError", data |-> FALSE, mtime |-> FALSE]
    ELSE IF ~fits THEN [res |-> "EINVAL", data |-> FALSE, mtime |-> FALSE]
    ELSE [res |-> "ok", data |-> TRUE, mtime |-> TRUE]

\* A dataset of each type createDataset can give it, and one call on it
InitValues ==
    /\ kind = [o \in Objs |-> IF o = RootObj THEN "group" ELSE "free"]
    /\ links = [o \in Objs |-> EmptyGroup]
    /\ anon = [c \in Collections |-> [u \in AllUuids |-> NoObj]]
    /\ refs = [c \in Collections |-> [u \in AllUuids |-> NoObj]]
    /\ addr = [o \in Objs |-> NoUuid]
    /\ ctime = [k \in TsKeys |-> 0]
    /\ mtime = [k \in TsKeys |-> 0]
    /\ acl = [u \in AllUuids |-> <<>>]
    /\ inited = FALSE
    /\ update_timestamps = TRUE
    /\ used = {}
    /\ created = {}
    /\ nops = 0
    /\ last = NoCall
    /\ readonly = FALSE
    /\ query = <<>> /\ field_names = {} /\ scan = NoScan /\ tmp = NoTmp /\ dblink = NoLink
    /\ \E typeItem \in Descriptors, format \in {"json", "binary"},
          fits \in BOOLEAN,
          fn \in {"getDatasetValuesByUuid", "setDatasetValuesByUuid",
                  "setDatasetValuesByPointSelection"} :
           /\ createDataType(typeItem).kind # "TypeError"
           /\ fn = "getDatasetValuesByUuid" => fits
           /\ args = [fn |-> fn, typeItem |-> typeItem, format |-> format,
                      fits |-> fits]
    /\ ret = [pc |-> "call"]

GetDatasetValuesByUuid ==
    /\ args.fn = "getDatasetValuesByUuid" /\ ret.pc = "call"
    /\ LET r == getDatasetValuesByUuid(createDataType(args.typeItem),
                                       args.format) IN
           ret' = [pc |-> "return", res |-> r.res, data |-> r.data,
                   mtime |-> FALSE]
    /\ UNCHANGED args
    /\ Idle

WriteDatasetValuesByUuid ==
    /\ args.fn = "setDatasetValuesByUuid" /\ ret.pc = "call"
    /\ LET r == writeDatasetValuesByUuid(createDataType(args.typeItem),
                                         args.format, args.fits) IN
           ret' = [pc |-> "return", res |-> r.res, data |-> r.data,
                   mtime |-> r.mtime]
    /\ UNCHANGED args
    /\ Idle

WriteDatasetValuesByPointSelection ==
    /\ args.fn = "setDatasetValuesByPointSelection" /\ ret.pc = "call"
    /\ LET r == writeDatasetValuesByPointSelection(
                    createDataType(args.typeItem), args.format, args.fits) IN
           ret' = [pc |-> "return", res |-> r.res, data |-> r.data,
                   mtime |-> r.mtime]
    /\ UNCHANGED args
    /\ Idle

NextValues ==
    \/ GetDatasetValuesByUuid
    \/ WriteDatasetValuesByUuid
    \/ WriteDatasetValuesByPointSelection

SpecValues == InitValues /\ [][NextValues]_vars

\* --------------------------------------------------- values to json lists
\* Python and numpy values: an int, a list or tuple of values, a numpy
\* record (np.void) of field values, and a numpy array of a shape with its
\* elements in row-major order.  An element of an array type is itself an
\* array of the dims of the type.
PyInt(n) == [t |-> "int", v |-> n]
PyStr(s) == [t |-> "str", v |-> s]
PyList(items) == [t |-> "list", items |-> items]
np_void(items) == [t |-> "void", items |-> items]
ndarray(shape, flat) == [t |-> "ndarray", shape |-> shape, flat |-> flat]

\* data[i], counted from 1
item(data, i) ==
    IF Len(data.shape) = 1 THEN data.flat[i]
    ELSE LET n == Product(Tail(data.shape)) IN
         ndarray(Tail(data.shape), SubSeq(data.flat, (i - 1) * n + 1, i * n))

\* numpy's tolist()
RECURSIVE tolist(_)
tolist(value) ==
    CASE value.t = "ndarray" ->
             PyList([i \in 1 .. value.shape[1] |-> tolist(item(value, i))])
      [] value.t = "void" ->
             PyList([i \in DOMAIN value.items |-> tolist(value.items[i])])
      [] OTHER -> value

\* What a loop that appends the results rs to out returns: the list, or the
\* first exception
Outs(rs) ==
    IF \E i \in DOMAIN rs : rs[i].res # "ok"
    THEN LET i == CHOOSE j \in DOMAIN rs :
                      /\ rs[j].res # "ok"
                      /\ \A k \in 1 .. (j - 1) : rs[k].res = "ok"
         IN  [res |-> rs[i].res, out |-> PyList(<<>>)]
    ELSE [res |-> "ok", out |-> PyList([i \in DOMAIN rs |-> rs[i].out])]

\* getDataValue(typeItem, value, dimension, dims)
RECURSIVE getDataValue(_, _, _, _)
getDataValue(typeItem, value, dimension, dims) ==
    IF dimension > 0
    THEN IF dimension > Len(dims) THEN [res |-> "EIO", out |-> PyList(<<>>)]
         ELSE LET nElements == dims[Len(dims) - dimension + 1] IN
              IF value.t # "list" THEN [res |-> "TypeError", out |-> PyList(<<>>)]
              ELSE IF Len(value.items) < nElements
              THEN [res |-> "IndexError", out |-> PyList(<<>>)]
              ELSE Outs([i \in 1 .. nElements |->
                            getDataValue(typeItem, value.items[i],
                                         dimension - 1, dims)])
    ELSE LET v == IF value.t \in {"ndarray", "void"} THEN tolist(value)
                  ELSE value
             class == typeItem.class
         IN
         CASE class = "H5T_COMPOUND" ->
                  IF v.t # "list" THEN [res |-> "EIO", out |-> PyList(<<>>)]
                  ELSE IF Len(typeItem.fields) # Len(v.items)
                  THEN [res |-> "EIO", out |-> PyList(<<>>)]
                  ELSE Outs([i \in DOMAIN typeItem.fields |->
                                getDataValue(typeItem.fields[i].type,
                                             v.items[i], 0, <<>>)])
           [] class = "H5T_VLEN" ->
                  IF v.t # "list" THEN [res |-> "EIO", out |-> PyList(<<>>)]
                  ELSE Outs([i \in DOMAIN v.items |->
                                getDataValue(typeItem.base, v.items[i], 0,
                                             <<>>)])
           [] class = "H5T_OPAQUE" -> [res |-> "ok", out |-> PyStr("???")]
           [] class = "H5T_ARRAY" ->
                  getDataValue(typeItem.base, v, Len(typeItem.dims),
                               typeItem.dims)
           [] class \in {"H5T_INTEGER", "H5T_FLOAT", "H5T_ENUM"} ->
                  [res |-> "ok", out |-> v]
           [] OTHER -> [res |-> "AttributeError", out |-> PyList(<<>>)]

\* toList that takes every rank above 0 for rank 1
RECURSIVE toList(_, _, _)
toListOneLevel(rank, typeItem, data) ==
    IF typeItem.class \in {"H5T_INTEGER", "H5T_FLOAT"}
    THEN [res |-> "ok", out |-> tolist(data)]
    ELSE IF rank = 0 THEN getDataValue(typeItem, data, 0, <<>>)
    ELSE Outs([i \in 1 .. data.shape[1] |->
                  getDataValue(typeItem, item(data, i), 0, <<>>)])

\* toList(rank, typeItem, data)
toList(rank, typeItem, data) ==
    IF typeItem.class \in {"H5T_INTEGER", "H5T_FLOAT"}
    THEN [res |-> "ok", out |-> tolist(data)]
    ELSE IF rank = 0 THEN getDataValue(typeItem, data, 0, <<>>)
    ELSE Outs([i \in 1 .. data.shape[1] |->
                  IF rank > 1 THEN toList(rank - 1, typeItem, item(data, i))
                  ELSE getDataValue(typeItem, item(data, i), 0, <<>>)])

\* Types with the elements numpy can hold for them; the records of the
\* compound have one, two or three elements for its two fields.
Int32 ==
    [class |-> "H5T_INTEGER",
     base |-> [prefix |-> "H5T_STD_I", num_bits |-> <<"3", "2">>,
               order |-> "LE"]]
Pair(type) ==
    [class |-> "H5T_COMPOUND",
     fields |-> <<[name |-> 1, type |-> Int32], [name |-> 2, type |-> type]>>]
Vector == [class |-> "H5T_ARRAY", dims |-> <<2>>, base |-> Int32]
Ints == {PyInt(0), PyInt(1)}
Vectors == {ndarray(<<2>>, <<a, b>>) : a, b \in Ints}
TypedElements ==
    ({Int32} \X Ints)
    \cup ({[class |-> "H5T_OPAQUE", size |-> 1, tag |-> ""]} \X {np_void(<<>>)})
    \cup ({[class |-> "H5T_VLEN", size |-> H5T_VARIABLE, base |-> Int32]}
            \X {ndarray(<<n>>, [i \in 1 .. n |-> PyInt(i)]) : n \in 1 .. 2})
    \cup ({Vector} \X Vectors)
    \cup ({[class |-> "H5T_ARRAY", dims |-> <<1, 2>>, base |-> Int32]}
            \X {ndarray(<<1, 2>>, <<a, b>>) : a, b \in Ints})
    \cup ({Pair(Int32)}
            \X {np_void([i \in 1 .. n |-> PyInt(i)]) : n \in 1 .. 3})
    \cup ({Pair(Vector)} \X {np_void(<<PyInt(0), v>>) : v \in Vectors})
Shapes == UNION {[1 .. n -> 1 .. MaxCoord] : n \in 0 .. MaxRank}

InitToList ==
    /\ kind = [o \in Objs |-> IF o = RootObj THEN "group" ELSE "free"]
    /\ links = [o \in Objs |-> EmptyGroup]
    /\ anon = [c \in Collections |-> [u \in AllUuids |-> NoObj]]
    /\ refs = [c \in Collections |-> [u \in AllUuids |-> NoObj]]
    /\ addr = [o \in Objs |-> NoUuid]
    /\ ctime = [k \in TsKeys |-> 0]
    /\ mtime = [k \in TsKeys |-> 0]
    /\ acl = [u \in AllUuids |-> <<>>]
    /\ inited = FALSE
    /\ update_timestamps = TRUE
    /\ used = {}
    /\ created = {}
    /\ nops = 0
    /\ last = NoCall
    /\ readonly = FALSE
    /\ query = <<>> /\ field_names = {} /\ scan = NoScan /\ tmp = NoTmp /\ dblink = NoLink
    /\ \E dims \in Shapes, first \in TypedElements, rest \in TypedElements :
           /\ first[1] = rest[1]
           /\ args = [fn |-> "toList", rank |-> Len(dims), dims |-> dims,
                      typeItem |-> first[1],
                      data |-> IF dims = <<>> THEN first[2]
                               ELSE ndarray(dims,
                                       [i \in 1 .. Product(dims) |->
                                           IF i = 1 THEN first[2]
                                           ELSE rest[2]])]
    /\ ret = [pc |-> "call"]

ToList ==
    /\ args.fn = "toList" /\ ret.pc = "call"
    /\ LET r == toList(args.rank, args.typeItem, args.data) IN
           ret' = [pc |-> IF r.res = "ok" THEN "return" ELSE "raise",
                   res |-> r.res, out |-> r.out]
    /\ UNCHANGED args
    /\ Idle

NextToList == ToList

SpecToList == InitToList /\ [][NextToList]_vars

\* ------------------------------------------------ failing store writes
\* The writes of a call in the order the code makes them; the n-th raises
\* and the call ends with what the earlier ones wrote.  No call catches the
\* error or undoes a write.

\* unlinkItem(grpUuid, link_name) of the last hard link to an object:
\* unlinkObjectItem deletes the reference, adds the object to its container,
\* then deletes the link.
unlinkItemWrites(S, ut, grpUuid, link_name) ==
    LET S0 == initFile(S, ut)
        grp == getObjectByUuid(S0, "groups", grpUuid)
        obj == S0.links[grp][link_name].tgt
        obj_uuid == S0.addr[obj]
        dbCol == getDBCollection(S0, obj_uuid)
        S1 == [S0 EXCEPT !.refs[dbCol][obj_uuid] = NoObj]
        S2 == [S1 EXCEPT !.anon[dbCol][obj_uuid] = obj]
    IN  IF /\ grp \in Objs /\ S0.kind[grp] = "group"
           /\ S0.links[grp][link_name].cls = "hard"
           /\ getNumLinksToObject(S0, obj) = 1
           /\ obj_uuid # NoUuid /\ dbCol # "none"
           /\ S0.refs[dbCol][obj_uuid] # NoObj
           /\ S0.anon[dbCol][obj_uuid] = NoObj
        THEN <<S0, S1, S2>>
        ELSE <<>>

\* linkObject(parentUUID, childUUID, link_name) of an anonymous object under
\* a new name: the link is written, the object is deleted from its
\* container, then the reference is written.
linkObjectWrites(S, ut, parentUUID, childUUID, link_name) ==
    LET S0 == initFile(S, ut)
        parentObj == getObjectByUuid(S0, "groups", parentUUID)
        d == getObjectByUuid(S0, "datasets", childUUID)
        g == getObjectByUuid(S0, "groups", childUUID)
        t == getObjectByUuid(S0, "datatypes", childUUID)
        childObj == IF d # NoObj THEN d ELSE IF g # NoObj THEN g ELSE t
        dbCol == getDBCollection(S0, childUUID)
        S1 == [S0 EXCEPT !.links[parentObj][link_name] = HardLink(childObj)]
        S2 == [S1 EXCEPT !.anon[dbCol][childUUID] = NoObj]
    IN  IF /\ parentObj \in Objs /\ S0.kind[parentObj] = "group"
           /\ childObj \in Objs
           /\ S0.links[parentObj][link_name].cls = "none"
           /\ dbCol # "none" /\ S0.anon[dbCol][childUUID] # NoObj
        THEN <<S0, S1, S2>>
        ELSE <<>>

\* deleteObjectByUuid(objtype, obj_uuid) of an object no group links: the
\* address entry is deleted, then the object is deleted from its container.
deleteObjectByUuidWrites(S, ut, col, obj_uuid) ==
    LET S0 == initFile(S, ut)
        tgt == getObjectByUuid(S0, col, obj_uuid)
        S1 == [S0 EXCEPT !.addr[tgt] = NoUuid]
    IN  IF /\ ~IsRootGroup(S0, col, obj_uuid)
           /\ tgt \in Objs
           /\ ~BadGroupEntry(S0)
           /\ \A p \in Objs, n \in Names :
                  ~(S0.kind[p] = "group" /\ isObjectHardLinked(S0, p, tgt, n))
           /\ S0.addr[tgt] # NoUuid
           /\ S0.anon[col][obj_uuid] # NoObj
        THEN <<S0, S1>>
        ELSE <<>>

UnlinkItemStoreFails(h) ==
    /\ nops < h /\ ~readonly
    /\ \E g \in AllUuids, name \in ArgNames :
        LET w == unlinkItemWrites(St, update_timestamps, g, name) IN
        \E n \in DOMAIN w :
            /\ Apply(Collect(w[n]))
            /\ last' = [NoCall EXCEPT !.op = "unlinkItem", !.res = "OSError",
                                      !.uuid = g, !.name = name]

LinkObjectStoreFails(h) ==
    /\ nops < h /\ ~readonly
    /\ \E p \in AllUuids, c \in UUIDs, name \in ArgNames :
        LET w == linkObjectWrites(St, update_timestamps, p, c, name) IN
        \E n \in DOMAIN w :
            /\ Apply(Collect(w[n]))
            /\ last' = [NoCall EXCEPT !.op = "linkObject", !.res = "OSError",
                                      !.uuid = p, !.child = c, !.name = name]

DeleteObjectByUuidStoreFails(h) ==
    /\ nops < h /\ ~readonly
    /\ \E col \in Collections, u \in AllUuids :
        LET w == deleteObjectByUuidWrites(St, update_timestamps, col, u) IN
        \E n \in DOMAIN w :
            /\ Apply(Collect(w[n]))
            /\ last' = [NoCall EXCEPT !.op = "deleteObjectByUuid",
                                      !.res = "OSError", !.col = col,
                                      !.uuid = u]

NextStoreFails ==
    \/ Calls(MaxOps)
    \/ UnlinkItemStoreFails(MaxOps)
    \/ LinkObjectStoreFails(MaxOps)
    \/ DeleteObjectByUuidStoreFails(MaxOps)

SpecStoreFails == Init /\ [][NextStoreFails]_vars

\* ---- null-space creation through the {tmp} scratch group

\* createDataset(datatype, None, obj_uuid=arg): a scalar dataset named after
\* the UUID is created in {tmp} for its type id, the permanent dataset is
\* created in {datasets} with h5py.h5d.create, and the temporary one is
\* deleted after that.  Each of the two creations refuses a name its group
\* already has, and nothing catches that ValueError.  T is {tmp} before
\* the call.
createNullDataset(S, T, ut, arg, o, t) ==
    LET S0 == initFile(S, ut)
        id == IF arg = NoUuid THEN Min(UUIDs \ S0.used) ELSE arg
        S1 == [S0 EXCEPT !.used = @ \cup {id}]
        T1 == [T EXCEPT !.datasets = @ \cup {id}]
    IN  IF id \in T.datasets
        THEN [st |-> Collect(S1), res |-> "ValueError", tmp |-> T]
        ELSE IF S1.anon["datasets"][id] # NoObj
        THEN [st |-> Collect(S1), res |-> "ValueError", tmp |-> T1]
        ELSE LET S2 == [S1 EXCEPT !.kind[o] = "dataset",
                                  !.anon["datasets"][id] = o, !.addr[o] = id]
             IN [st |-> Collect(setModifiedTime(
                                  setCreateTime(S2, ut, id, "object", "", t),
                                  ut, id, "object", "", t)),
                 res |-> "ok",
                 tmp |-> [T1 EXCEPT !.datasets = @ \ {id}]]

\* makeAttribute(obj, attr_name, None, attr_type, value): a scalar
\* attribute of that name is created on {tmp} (attrs.create replaces one
\* that is there), the permanent one is created on obj after any attribute
\* of that name was deleted from it, and the temporary one is deleted.
makeAttribute(T, attr_name) ==
    LET T1 == [T EXCEPT !.attrs = @ \cup {attr_name}]
    IN  [T1 EXCEPT !.attrs = @ \ {attr_name}]

\* createAttribute(col_name, obj_uuid, attr_name, None, attr_type, value)
createAttribute(S, T, ut, col, obj_uuid, attr_name, t) ==
    LET S0 == initFile(S, ut)
        obj == getObjectByUuid(S0, col, obj_uuid)
    IN  IF obj = ExcObj
        THEN [st |-> Collect(S0), res |-> "ValueError", tmp |-> T]
        ELSE IF obj = NoObj
        THEN [st |-> Collect(S0), res |-> "ENXIO", tmp |-> T]
        ELSE [st |-> Collect(setModifiedTime(
                       setModifiedTime(
                         setCreateTime(S0, ut, obj_uuid, "attribute", attr_name, t),
                         ut, obj_uuid, "attribute", attr_name, t),
                       ut, obj_uuid, "object", "", t)),
              res |-> "ok",
              tmp |-> makeAttribute(T, attr_name)]

CreateNullDataset(h) ==
    /\ nops < h
    /\ \E arg \in {NoUuid} \cup UUIDs, o \in Free :
        /\ CanMint(arg)
        /\ LET r == IF readonly
                    THEN [st |-> Denied(St, update_timestamps).st,
                          res |-> "EPERM", tmp |-> tmp]
                    ELSE createNullDataset(St, tmp, update_timestamps, arg, o, now) IN
            /\ Store(r.st)
            /\ created' = IF r.res = "ok" THEN created \cup {NewId(arg)} ELSE created
            /\ tmp' = r.tmp /\ UNCHANGED dblink
            /\ last' = [NoCall EXCEPT !.op = "createDataset", !.res = r.res,
                                      !.col = "datasets", !.uuid = NewId(arg)]

CreateNullAttribute(h) ==
    /\ nops < h
    /\ \E col \in Collections, u \in AllUuids, name \in Names :
        LET r == IF readonly
                 THEN [st |-> Denied(St, update_timestamps).st,
                       res |-> "EPERM", tmp |-> tmp]
                 ELSE createAttribute(St, tmp, update_timestamps, col, u, name, now) IN
            /\ Store(r.st)
            /\ UNCHANGED created
            /\ tmp' = r.tmp /\ UNCHANGED dblink
            /\ last' = [NoCall EXCEPT !.op = "createAttribute", !.res = r.res,
                                      !.col = col, !.uuid = u, !.name = name]

NextTmp == Calls(MaxOps) \/ CreateNullDataset(MaxOps) \/ CreateNullAttribute(MaxOps)
SpecTmp == Init /\ [][NextTmp]_vars

\* ---- handles that create objects, link, unlink and delete them
NextDirectory ==
    \/ CreateGroup(MaxOps + 1)
    \/ CreateDataset(MaxOps + 1)
    \/ CreateCommittedType(MaxOps + 1)
    \/ LinkObject(MaxOps + 1)
    \/ UnlinkItem(MaxOps + 1)
    \/ DeleteObjectByUuid(MaxOps + 1)

SpecDirectory == Init /\ [][NextDirectory]_vars

\* ---- calls that name the root's "__db__" link
\* The calls below are made on the root group with the link name "__db__",
\* which initFile has linked to the directory group by the time the name is
\* looked at.  Each result carries what the call leaves in the place of
\* that link (dblink).

\* unlinkItem(root_uuid, "__db__"): the name is in the group and is refused
unlinkItemDb(S, ut, link) ==
    [st |-> Collect(initFile(S, ut)), res |-> "EPERM", dblink |-> link]

\* createSoftLink(root_uuid, "/" + path, "__db__"): the name is in the
\* group, so the old link is deleted with del parentObj[link_name] and the
\* soft link is written.  The time stamps of the link go to the group
\* that is no longer linked.
createSoftLinkDb(S, ut, link, path) ==
    [st |-> Collect(initFile(S, ut)), res |-> "ok", dblink |-> SoftLink(path)]

\* createExternalLink(root_uuid, extPath, linkPath, "__db__")
createExternalLinkDb(S, ut, link) ==
    [st |-> Collect(initFile(S, ut)), res |-> "ok", dblink |-> ExternalLink]

\* linkObject(root_uuid, childUUID, "__db__"): the old link is hard, the
\* root's is the one link to the directory group, so unlinkObjectItem goes
\* on to demote it; getUUIDByAddress has no UUID for its address, and
\* "converting: " + None raises TypeError before anything is deleted.
linkObjectDb(S, ut, link, childUUID) ==
    LET S0 == initFile(S, ut)
        d == getObjectByUuid(S0, "datasets", childUUID)
        g == getObjectByUuid(S0, "groups", childUUID)
        t == getObjectByUuid(S0, "datatypes", childUUID)
        childObj == IF d # NoObj THEN d ELSE IF g # NoObj THEN g ELSE t
    IN  [st |-> Collect(S0),
         res |-> IF childObj = ExcObj THEN "ValueError"
                 ELSE IF childObj = NoObj THEN "ENXIO"
                 ELSE "TypeError",
         dblink |-> link]

\* getUUIDByPath(path) for the path "__db__/{col}/u", with a "/" in front
\* of it when slash holds: path[:6] == '__db__' is the refusal, and
\* self.f[path] opens the member u of the container.
getUUIDByPathDb(S, ut, slash, col, u) ==
    LET S0 == initFile(S, ut)
        obj == S0.anon[col][u]
    IN  IF ~slash THEN [st |-> S0, res |-> "EIO", uuid |-> NoUuid]
        ELSE IF obj = NoObj THEN [st |-> S0, res |-> "KeyError", uuid |-> NoUuid]
        ELSE [st |-> S0, res |-> "ok", uuid |-> getUUIDByAddress(S0, obj)]

UnlinkItemDb(h) ==
    /\ nops < h /\ dblink = NoLink
    /\ LET r == IF readonly THEN [st |-> St, res |-> "EPERM", dblink |-> dblink]
                ELSE unlinkItemDb(St, update_timestamps, dblink) IN
        /\ Store(r.st) /\ UNCHANGED <<created, tmp>>
        /\ dblink' = r.dblink
        /\ last' = [NoCall EXCEPT !.op = "unlinkItem", !.res = r.res,
                                  !.uuid = RootUuid, !.name = "__db__"]

CreateSoftLinkDb(h) ==
    /\ nops < h /\ dblink = NoLink
    /\ \E path \in Names :
        LET r == IF readonly
                 THEN [st |-> Denied(St, update_timestamps).st,
                       res |-> "EPERM", dblink |-> dblink]
                 ELSE createSoftLinkDb(St, update_timestamps, dblink, path) IN
            /\ Store(r.st) /\ UNCHANGED <<created, tmp>>
            /\ dblink' = r.dblink
            /\ last' = [NoCall EXCEPT !.op = "createSoftLink", !.res = r.res,
                                      !.uuid = RootUuid, !.name = "__db__"]

CreateExternalLinkDb(h) ==
    /\ nops < h /\ dblink = NoLink
    /\ LET r == IF readonly
                THEN [st |-> Denied(St, update_timestamps).st,
                      res |-> "EPERM", dblink |-> dblink]
                ELSE createExternalLinkDb(St, update_timestamps, dblink) IN
        /\ Store(r.st) /\ UNCHANGED <<created, tmp>>
        /\ dblink' = r.dblink
        /\ last' = [NoCall EXCEPT !.op = "createExternalLink", !.res = r.res,
                                  !.uuid = RootUuid, !.name = "__db__"]

LinkObjectDb(h) ==
    /\ nops < h /\ dblink = NoLink
    /\ \E c \in AllUuids :
        LET r == IF readonly
                 THEN [st |-> Denied(St, update_timestamps).st,
                       res |-> "EPERM", dblink |-> dblink]
                 ELSE linkObjectDb(St, update_timestamps, dblink, c) IN
            /\ Store(r.st) /\ UNCHANGED <<created, tmp>>
            /\ dblink' = r.dblink
            /\ last' = [NoCall EXCEPT !.op = "linkObject", !.res = r.res,
                                      !.uuid = RootUuid, !.child = c,
                                      !.name = "__db__"]

GetUUIDByPathDb(h) ==
    /\ nops < h /\ dblink = NoLink
    /\ \E slash \in BOOLEAN, col \in Collections, u \in AllUuids :
        LET r == getUUIDByPathDb(St, update_timestamps, slash, col, u) IN
            /\ Store(r.st) /\ UNCHANGED <<created, tmp, dblink>>
            /\ last' = [NoCall EXCEPT !.op = "getUUIDByPath", !.res = r.res,
                                      !.uuid = r.uuid, !.name = "__db__",
                                      !.useRoot = slash]

\* The handle is followed up to the call that replaces the link.
NextDb ==
    \/ dblink = NoLink /\ Calls(MaxOps)
    \/ UnlinkItemDb(MaxOps)
    \/ LinkObjectDb(MaxOps)
    \/ CreateSoftLinkDb(MaxOps)
    \/ CreateExternalLinkDb(MaxOps)
    \/ GetUUIDByPathDb(MaxOps)

SpecDb == Init /\ [][NextDb]_vars

\* ------------------------------------------------- writes to a selection
MaxStep == 2         \* largest step of a slice
MaxBytes == 4        \* longest binary data of a write

\* slice(start, stop, step)
slice(start, stop, step) == [start |-> start, stop |-> stop, step |-> step]

\* The loop of setDatasetValuesByUuid over the dimensions, from dimension i
\* with npoints and np_shape so far.
RECURSIVE selectSlices(_, _, _, _, _)
selectSlices(shape, slices, i, npoints, np_shape) ==
    IF i > Len(shape)
    THEN [res |-> "ok", npoints |-> npoints, np_shape |-> np_shape]
    ELSE LET s == slices[i]
             count == (s.stop - s.start) \div s.step
         IN  IF s.start < 0 \/ s.step <= 0 \/ s.stop < s.start
             THEN [res |-> "EINVAL", npoints |-> npoints, np_shape |-> np_shape]
             ELSE IF s.stop > shape[i]
             THEN [res |-> "EINVAL", npoints |-> npoints, np_shape |-> np_shape]
             ELSE IF count <= 0
             THEN [res |-> "EINVAL", npoints |-> npoints, np_shape |-> np_shape]
             ELSE selectSlices(shape, slices, i + 1, npoints * count,
                               Append(np_shape, s.stop - s.start))

\* setDatasetValuesByUuid(obj_uuid, data, slices, format="binary") on a
\* writable dataset of the given shape whose elements have itemSize bytes
\* and no array type, with data of nbytes bytes: np.fromstring gives
\* nbytes / itemSize elements and reshape refuses a shape of another size.
\* data and mtime say whether the dataset and its timestamp were written.
writeSlices(shape, slices, itemSize, nbytes) ==
    LET sel == selectSlices(shape, slices, 1, 1, <<>>) IN
    IF Len(slices) # Len(shape)
    THEN [res |-> "EINVAL", data |-> FALSE, mtime |-> FALSE]
    ELSE IF sel.res # "ok"
    THEN [res |-> sel.res, data |-> FALSE, mtime |-> FALSE]
    ELSE IF sel.npoints * itemSize # nbytes
    THEN [res |-> "EINVAL", data |-> FALSE, mtime |-> FALSE]
    ELSE IF Product(sel.np_shape) # nbytes \div itemSize
    THEN [res |-> "ValueError", data |-> FALSE, mtime |-> FALSE]
    ELSE [res |-> "ok", data |-> TRUE, mtime |-> TRUE]

Extents == 1 .. MaxCoord
Steps == 0 .. MaxStep
Slices == {slice(start, stop, step) : start \in Coords, stop \in Coords,
                                      step \in Steps}
\* the integer types of one and of two bytes
SliceTypes == {t \in IntegerTypes : int(t.base.num_bits) <= 16}

\* A dataset of each shape, one slice per dimension and the data of a
\* binary write
InitSlices ==
    /\ kind = [o \in Objs |-> IF o = RootObj THEN "group" ELSE "free"]
    /\ links = [o \in Objs |-> EmptyGroup]
    /\ anon = [c \in Collections |-> [u \in AllUuids |-> NoObj]]
    /\ refs = [c \in Collections |-> [u \in AllUuids |-> NoObj]]
    /\ addr = [o \in Objs |-> NoUuid]
    /\ ctime = [k \in TsKeys |-> 0]
    /\ mtime = [k \in TsKeys |-> 0]
    /\ acl = [u \in AllUuids |-> <<>>]
    /\ inited = FALSE
    /\ update_timestamps = TRUE
    /\ used = {}
    /\ created = {}
    /\ nops = 0
    /\ last = NoCall
    /\ readonly = FALSE
    /\ query = <<>> /\ field_names = {} /\ scan = NoScan /\ tmp = NoTmp /\ dblink = NoLink
    /\ \E rank \in Ranks, typeItem \in SliceTypes, nbytes \in 0 .. MaxBytes :
       \E shape \in [1 .. rank -> Extents], slices \in [1 .. rank -> Slices] :
           args = [fn |-> "setDatasetValuesByUuid", shape |-> shape,
                   slices |-> slices, itemSize |-> getItemSize(typeItem),
                   nbytes |-> nbytes]
    /\ ret = [pc |-> "call"]

WriteSlices ==
    /\ args.fn = "setDatasetValuesByUuid" /\ ret.pc = "call"
    /\ LET r == writeSlices(args.shape, args.slices, args.itemSize, args.nbytes) IN
           ret' = [pc |-> IF r.res = "ok" THEN "return" ELSE "raise",
                   res |-> r.res, data |-> r.data, mtime |-> r.mtime]
    /\ UNCHANGED args
    /\ Idle

NextSlices == WriteSlices

SpecSlices == InitSlices /\ [][NextSlices]_vars

\* ---------------------------------------------------------------- claims
\* C1: every UUID known to the directory is in exactly one storage mode: it
\* is a member of its kind's anonymous container or a key of that container's
\* reference table, never both, and never in the containers of two kinds.
C1_OneStorageMode ==
    \A u \in AllUuids :
        /\ \A c \in Collections : ~(anon[c][u] # NoObj /\ refs[c][u] # NoObj)
        /\ Cardinality({c \in Collections :
                            anon[c][u] # NoObj \/ refs[c][u] # NoObj}) <= 1

\* C2: for an object created by a create call, in a directory where every
\* UUID has one entry: a successful linkObject moves its entry from the
\* anonymous container to the reference table; a successful unlinkItem of a
\* hard link to it leaves it Linked when another hard link to the object
\* remains in some group, and otherwise puts it back in the anonymous
\* container under its UUID. Soft and external links do not count.
C2_PromoteDemote ==
    [][/\ (/\ last'.op = "linkObject" /\ last'.res = "ok"
            /\ C1_OneStorageMode
            /\ last'.child \in created
            /\ \E c \in Collections : anon[c][last'.child] # NoObj)
           => \E c \in Collections :
                 /\ anon[c][last'.child] # NoObj
                 /\ refs'[c][last'.child] = anon[c][last'.child]
                 /\ anon'[c][last'.child] = NoObj
       /\ LET g == getObjectByUuid(St, "groups", last'.uuid)
               l == links[g][last'.name]
               o == l.tgt
               u == addr[o]
               remaining == {p \in Objs \X Names :
                               /\ kind'[p[1]] = "group"
                               /\ links'[p[1]][p[2]] = HardLink(o)}
           IN  (/\ last'.op = "unlinkItem" /\ last'.res = "ok"
                /\ C1_OneStorageMode
                /\ g \in Objs
                /\ l.cls = "hard"
                /\ u \in created
                /\ \E c \in Collections : refs[c][u] = o)
               => \E c \in Collections :
                     IF remaining # {}
                     THEN refs'[c][u] = o /\ anon'[c][u] = NoObj
                     ELSE anon'[c][u] = o /\ refs'[c][u] = NoObj
      ]_vars

\* C3: after deleteObjectByUuid succeeds for a UUID, whatever the handle's
\* update_timestamps setting, the item lookup of that UUID in its collection
\* fails with ENOENT; the lookup of a UUID that was never assigned fails
\* with ENXIO.
C3_DeletedIsENOENT ==
    [][/\ (/\ last'.op = "deleteObjectByUuid" /\ last'.res = "ok"
            /\ C1_OneStorageMode)
           => getItemByUuid(St', last'.col, last'.uuid) = "ENOENT"
       /\ inited' => \A c \in Collections, u \in UUIDs \ used' :
                         getItemByUuid(St', c, u) = "ENXIO"
      ]_vars

\* C4: after deleteObjectByUuid succeeds on a directory where every UUID has
\* one entry, no group of the store (root, linked or anonymous) holds a hard
\* link to the deleted object, the object has no address-index entry and
\* the UUID resolves to nothing in any collection.
C4_DeleteRemovesAllLinks ==
    [][LET tgt == getObjectByUuid(initFile(St, update_timestamps),
                                  last'.col, last'.uuid)
       IN  (/\ last'.op = "deleteObjectByUuid" /\ last'.res = "ok"
            /\ C1_OneStorageMode)
           => /\ \A g \in Objs, n \in Names :
                    kind'[g] = "group" => links'[g][n] # HardLink(tgt)
              /\ addr'[tgt] = NoUuid
              /\ \A c \in Collections :
                    getObjectByUuid(St', c, last'.uuid) = NoObj
      ]_vars

\* C5: linkObject(parent, child, name) on a directory where every UUID has
\* one entry, with an object other than the root as child and a hard, soft
\* or external link called name already under parent (a hard link to an
\* object other than the root), succeeds and leaves name as a hard link to
\* child.
C5_LinkObjectOverwrites ==
    [][LET S0 == initFile(St, update_timestamps)
           parentObj == getObjectByUuid(S0, "groups", last'.uuid)
           d == getObjectByUuid(S0, "datasets", last'.child)
           g == getObjectByUuid(S0, "groups", last'.child)
           t == getObjectByUuid(S0, "datatypes", last'.child)
           childObj == IF d # NoObj THEN d ELSE IF g # NoObj THEN g ELSE t
       IN  (/\ last'.op = "linkObject"
            /\ C1_OneStorageMode
            /\ last'.child \in UUIDs
            /\ parentObj \in Objs
            /\ childObj \in Objs
            /\ links[parentObj][last'.name].cls \in {"hard", "soft", "external"}
            /\ links[parentObj][last'.name].tgt # RootObj)
           => /\ last'.res = "ok"
              /\ links'[parentObj][last'.name] = HardLink(childObj)
      ]_vars

\* C6: deleteObjectByUuid('group', rootUUID) always fails with EPERM and
\* leaves the directory, the address index, the link graph, the timestamps
\* and everything else as the handle's initFile left them.
C6_DeleteRootRejected ==
    [][(last'.op = "deleteObjectByUuid" /\ last'.col = "groups"
        /\ last'.uuid = RootUuid)
       => (last'.res = "EPERM" /\ St' = initFile(St, update_timestamps))]_vars

C6_Witness ==
    /\ last.op = "deleteObjectByUuid" /\ last.col = "groups"
    /\ last.uuid = RootUuid /\ last.res = "EPERM"
    /\ nops >= 2
    /\ \E n \in Names : links[RootObj][n].cls = "hard"

\* C7: unlinkItem on a user-defined link always fails with EPERM and changes
\* nothing: the group keeps its links and no link timestamp is written.
C7_UnlinkUDLinkRejected ==
    [][(last'.op = "unlinkItem"
        /\ LET g == getObjectByUuid(initFile(St, update_timestamps),
                                    "groups", last'.uuid) IN
             /\ g \in Objs
             /\ kind[g] = "group"
             /\ links[g][last'.name].cls = "ud")
       => (last'.res = "EPERM" /\ St' = initFile(St, update_timestamps))]_vars

C7_Witness ==
    /\ last.op = "unlinkItem" /\ last.res = "EPERM"
    /\ nops >= 2
    /\ LET g == getObjectByUuid(St, "groups", last.uuid) IN
         g \in Objs /\ links[g][last.name].cls = "ud"

\* C8: getAcl(uuid, user_id) returns the first entry found among (uuid,
\* user_id); (root, user_id) unless uuid is the root or user_id is 0;
\* (uuid, 0) unless user_id is 0; (root, 0) unless uuid is the root; and
\* otherwise the entry with userid 0 and every permission 1. It changes no
\* ACL record.
C8_GetAclPrecedence ==
    [][(last'.op = "getAcl" /\ last'.res = "ok")
       => LET has(v, x) == \E i \in DOMAIN acl[v] : acl[v][i].userid = x
              entry(v, x) == acl[v][CHOOSE i \in DOMAIN acl[v] :
                                      /\ acl[v][i].userid = x
                                      /\ \A j \in 1..(i - 1) : acl[v][j].userid # x]
              uuid == last'.uuid
              user_id == last'.user
          IN  /\ last'.val =
                   IF has(uuid, user_id) THEN entry(uuid, user_id)
                   ELSE IF uuid # RootUuid /\ user_id # 0 /\ has(RootUuid, user_id)
                        THEN entry(RootUuid, user_id)
                   ELSE IF user_id # 0 /\ has(uuid, 0) THEN entry(uuid, 0)
                   ELSE IF uuid # RootUuid /\ has(RootUuid, 0) THEN entry(RootUuid, 0)
                   ELSE [userid |-> 0, create |-> 1, read |-> 1, update |-> 1,
                         delete |-> 1, readACL |-> 1, updateACL |-> 1]
              /\ acl' = acl
              /\ \A v \in AllUuids : getNumAcls(St', v) = getNumAcls(St, v)
      ]_vars

\* getAcl(uuid, 1) answered with the root's entry for user 1 although the
\* object has an entry for user 0
C8_Witness ==
    /\ last.op = "getAcl" /\ last.res = "ok"
    /\ last.uuid # RootUuid /\ last.user = 1
    /\ \E i \in DOMAIN acl[last.uuid] : acl[last.uuid][i].userid = 0
    /\ \A i \in DOMAIN acl[last.uuid] : acl[last.uuid][i].userid # 1
    /\ \E i \in DOMAIN acl[RootUuid] : acl[RootUuid][i] = last.val
                                       /\ last.val.userid = 1

\* C9: the ACL sequence of an object holds at most one entry per userid.
\* setAcl for a userid that is present updates that entry in place and leaves
\* the length and the other entries unchanged; for a userid that is not
\* present it appends one entry and leaves the others unchanged; a getAcl
\* for the same uuid and userid then returns the values just set.
C9_SetAclUpsert ==
    [][(last'.op = "setAcl" /\ last'.res = "ok")
       => LET uuid == last'.uuid
              old == acl[uuid]
              new == acl'[uuid]
              at == {i \in DOMAIN old : old[i].userid = last'.user}
          IN  /\ \A v \in AllUuids \ {uuid} : acl'[v] = acl[v]
              /\ at # {} => /\ Len(new) = Len(old)
                            /\ \A i \in DOMAIN old \ at : new[i] = old[i]
                            /\ \A i \in at : \A f \in AclFields :
                                  new[i][f] = IF f \in last'.keys THEN last'.val[f]
                                              ELSE old[i][f]
              /\ at = {} => /\ Len(new) = Len(old) + 1
                            /\ \A i \in DOMAIN old : new[i] = old[i]
                            /\ new[Len(new)].userid = last'.user
              /\ \A v \in AllUuids : \A i, j \in DOMAIN acl'[v] :
                    acl'[v][i].userid = acl'[v][j].userid => i = j
              /\ \A f \in last'.keys :
                    getAcl(St', uuid, last'.user)[f] = last'.val[f]
      ]_vars

\* a setAcl with two of the keys on an entry that keeps another permission
\* from an earlier call
C9_Witness ==
    /\ last.op = "setAcl" /\ last.res = "ok"
    /\ last.keys # AclFields
    /\ Len(acl[last.uuid]) = 1
    /\ acl[last.uuid][1].userid = last.user
    /\ acl[last.uuid][1].readACL = 1
    /\ acl[last.uuid][1].read + acl[last.uuid][1].update = 1

\* C10: the number of ACL entries of an object never decreases, and after
\* deleteObjectByUuid succeeds for a UUID getNumAcls of it is 0 and getAcl
\* returns none of the entries stored for it.
C10_AclGoesWithObject ==
    [][/\ \A v \in AllUuids :
             (last'.op # "deleteObjectByUuid" \/ last'.uuid # v)
               => getNumAcls(St', v) >= getNumAcls(St, v)
       /\ (last'.op = "deleteObjectByUuid" /\ last'.res = "ok")
             => /\ getNumAcls(St', last'.uuid) = 0
                /\ \A x \in UserIds : \A i \in DOMAIN acl[last'.uuid] :
                      getAcl(St', last'.uuid, x) # acl[last'.uuid][i]
      ]_vars

\* C11: when _getEvalStr returns, its result is the query with every bare
\* identifier outside string literals (a letter followed by letters and
\* digits, the last token included) replaced at its own position by
\* rows['<name>'], every identifier being one of the field names, and every
\* other character copied unchanged and in order.
C11_Substitution ==
    scan.pc = "return" =>
        LET RECURSIVE Run(_, _), Subst(_, _, _)
            \* the last position of the identifier that contains position j
            Run(q, j) == IF j + 1 <= Len(q) /\ isalnum(q[j + 1])
                         THEN Run(q, j + 1) ELSE j
            Subst(q, i, quote) ==
                IF i > Len(q) THEN <<>>
                ELSE IF quote # ""
                THEN <<q[i]>> \o Subst(q, i + 1, IF q[i] = quote THEN "" ELSE quote)
                ELSE IF q[i] \in Quotes THEN <<q[i]>> \o Subst(q, i + 1, q[i])
                ELSE IF q[i] = "b" /\ i + 1 <= Len(q) /\ q[i + 1] \in Quotes
                THEN <<q[i]>> \o Subst(q, i + 1, "")
                ELSE IF isalpha(q[i])
                THEN IF SubSeq(q, i, Run(q, i)) \in field_names
                     THEN RowRef(SubSeq(q, i, Run(q, i))) \o Subst(q, Run(q, i) + 1, "")
                     ELSE <<"EINVAL">>
                ELSE <<q[i]>> \o Subst(q, i + 1, "")
        IN  scan.eval_str = Subst(query, 1, "")

\* C12: _getEvalStr returns only for a query that has, outside string
\* literals, no ';' and no '.' between an identifier and a name, and the
\* string it returns has, outside string literals, no identifier other than
\* rows followed by [' (a b that prefixes a literal is part of the literal).
C12_NoCode ==
    scan.pc = "return" =>
        LET RECURSIVE QuoteAt(_, _), Run(_, _)
            \* the quote that is open before position i, "" when none is
            QuoteAt(q, i) ==
                IF i = 1 THEN ""
                ELSE IF QuoteAt(q, i - 1) # ""
                THEN IF q[i - 1] = QuoteAt(q, i - 1) THEN "" ELSE QuoteAt(q, i - 1)
                ELSE IF q[i - 1] \in Quotes THEN q[i - 1] ELSE ""
            Run(q, j) == IF j + 1 <= Len(q) /\ isalnum(q[j + 1])
                         THEN Run(q, j + 1) ELSE j
            Bare(q, i) == QuoteAt(q, i) = "" /\ q[i] \notin Quotes
            StartsName(q, i) == /\ Bare(q, i) /\ isalpha(q[i])
                                /\ (i = 1 \/ ~isalnum(q[i - 1]))
            e == scan.eval_str
        IN  /\ \A i \in 1..Len(query) :
                Bare(query, i) =>
                    /\ query[i] # ";"
                    /\ ~(/\ query[i] = "."
                         /\ i > 1 /\ isalnum(query[i - 1])
                         /\ i < Len(query) /\ isalpha(query[i + 1]))
            /\ \A i \in 1..Len(e) :
                StartsName(e, i) =>
                    \/ /\ SubSeq(e, i, Run(e, i)) = <<"r", "o", "w", "s">>
                       /\ Run(e, i) + 2 <= Len(e)
                       /\ e[Run(e, i) + 1] = "["
                       /\ e[Run(e, i) + 2] = "'"
                    \/ /\ SubSeq(e, i, Run(e, i)) = <<"b">>
                       /\ Run(e, i) + 1 <= Len(e)
                       /\ e[Run(e, i) + 1] \in Quotes

\* C13: _getEvalStr never reads past a ')' met at parenthesis depth 0, and it
\* returns only when the query ends outside every literal, at depth 0 and
\* with at least one field reference recognised; the depth counts the
\* parentheses outside string literals only, and a literal is closed only by
\* the quote character that opened it.
C13_Rejections ==
    LET RECURSIVE QuoteAt(_, _), Depth(_, _)
        \* the quote that is open before position i, "" when none is
        QuoteAt(q, i) ==
            IF i = 1 THEN ""
            ELSE IF QuoteAt(q, i - 1) # ""
            THEN IF q[i - 1] = QuoteAt(q, i - 1) THEN "" ELSE QuoteAt(q, i - 1)
            ELSE IF q[i - 1] \in Quotes THEN q[i - 1] ELSE ""
        \* the parenthesis depth after the first n characters
        Depth(q, n) ==
            IF n = 0 THEN 0
            ELSE IF QuoteAt(q, n) # "" THEN Depth(q, n - 1)
            ELSE IF q[n] = "(" THEN Depth(q, n - 1) + 1
            ELSE IF q[n] = ")" THEN Depth(q, n - 1) - 1
            ELSE Depth(q, n - 1)
    IN  /\ scan.pc \in {"loop", "return", "raise"} =>
            \A n \in 1..(scan.i - 1) : Depth(query, n) >= 0
        /\ scan.pc \in {"loop", "return"} =>
            /\ scan.paren_count = Depth(query, scan.i - 1)
            /\ scan.end_quote_char = QuoteAt(query, scan.i)
        /\ scan.pc = "return" =>
            /\ scan.i = Len(query) + 1
            /\ QuoteAt(query, Len(query) + 1) = ""
            /\ Depth(query, Len(query)) = 0
            /\ scan.var_count > 0
        /\ scan.pc = "raise" => scan.msg # ""

\* a ')' met at depth 0 after a literal that holds a '(' stops the scan there
C13_Witness ==
    /\ scan.pc = "raise" /\ scan.msg = "Mismatched paren"
    /\ scan.i <= Len(query) /\ query[scan.i] = ")"
    /\ \E j \in 2..(scan.i - 1) :
           query[j] = "(" /\ query[j - 1] \in Quotes /\ query[j + 1] = query[j - 1]

\* C14: after initFile has scanned a file without a directory, every object
\* below the root has exactly one UUID, filed as a reference in the
\* collection of its kind and in no container, and its address maps to that
\* UUID; no two objects share a UUID; getUUIDByPath gives the UUID of the
\* object for every path that reaches it; initFile on an initialised file
\* changes nothing.
C14_OneUuidPerObject ==
    [][LET S == St'
           below == Reach(S, {RootObj}) \ {RootObj}
           ids(o) == {u \in AllUuids : \E c \in Collections :
                         S.refs[c][u] = o \/ S.anon[c][u] = o}
       IN  /\ \A o \in below :
                 /\ Cardinality(ids(o)) = 1
                 /\ \A u \in ids(o) :
                       /\ u \in UUIDs
                       /\ S.refs[CollectionOf(S.kind[o])][u] = o
                       /\ \A c \in Collections : S.anon[c][u] = NoObj
                       /\ S.addr[o] = u
                       /\ \A p \in Paths :
                             Lookup(S, RootObj, p) = o =>
                                 getUUIDByPath(S, update_timestamps, p).uuid = u
           /\ \A o \in below, k \in below : o # k => ids(o) \cap ids(k) = {}
           /\ \A o \in Objs \ below : ids(o) = {} /\ S.addr[o] = NoUuid
           /\ last'.op = "getUUIDByPath" /\ last'.res = "ok" /\ last'.path # <<>>
              /\ Lookup(S, RootObj, last'.path) # RootObj
                => last'.uuid \in ids(Lookup(S, RootObj, last'.path))
           /\ inited /\ last'.op = "initFile" => St' = St
      ]_vars

\* C15: no call binds a UUID to another object: a UUID that names an object
\* before a call names no other object after it, and a UUID that was handed
\* out earlier and names nothing any more (its object was deleted) names
\* nothing after the call.
C15_UuidNeverReassigned ==
    [][\A u \in UUIDs :
          LET bound(S) == {o \in Objs : \E c \in Collections :
                              S.refs[c][u] = o \/ S.anon[c][u] = o}
          IN  /\ bound(St) # {} => bound(St') \subseteq bound(St)
              /\ u \in created /\ bound(St) = {} => bound(St') = {}
      ]_vars

\* C16: getCollection on a directory where every UUID has one entry returns
\* the Linked UUIDs of the collection followed by its Anonymous UUIDs, less
\* the entries up to and including the marker when one is given, cut to
\* limit entries when limit > 0 and whole when limit is 0 or not passed.
C16_GetCollection ==
    [][last'.op = "getCollection" /\ C1_OneStorageMode' =>
          LET c == last'.col
              all == KeySeq({u \in AllUuids : refs'[c][u] # NoObj})
                       \o KeySeq({u \in AllUuids : anon'[c][u] # NoObj})
              at == {i \in 1..Len(all) : all[i] = last'.uuid}
              rest == IF last'.uuid = NoUuid THEN all
                      ELSE IF at = {} THEN <<>>
                      ELSE SubSeq(all, Min(at) + 1, Len(all))
          IN  last'.uuids = IF last'.limit > 0 /\ last'.limit < Len(rest)
                            THEN SubSeq(rest, 1, last'.limit) ELSE rest
      ]_vars

\* C17: getLinkItems on a group, with no marker or with the title of one of
\* the group's links as marker, succeeds and returns the links that follow
\* the marker in the group's iteration order, each once, cut to limit links
\* when limit > 0 and whole when limit is 0 (so that paging by the last
\* title returns every link once).
C17_GetLinkItems ==
    [][/\ last'.op = "getLinkItems"
       /\ getObjectByUuid(St', "groups", last'.uuid) \in Objs
       /\ kind'[getObjectByUuid(St', "groups", last'.uuid)] = "group"
       /\ last'.name # "" =>
             links'[getObjectByUuid(St', "groups", last'.uuid)][last'.name].cls # "none"
       =>
          LET g == getObjectByUuid(St', "groups", last'.uuid)
              all == SelectSeq(NameSeq, LAMBDA n : links'[g][n].cls # "none")
              at == {i \in 1..Len(all) : all[i] = last'.name}
              rest == IF last'.name = "" THEN all
                      ELSE SubSeq(all, Min(at) + 1, Len(all))
              want == IF last'.limit > 0 /\ last'.limit < Len(rest)
                      THEN SubSeq(rest, 1, last'.limit) ELSE rest
          IN  /\ last'.res = "ok"
              /\ Len(last'.items) = Len(want)
              /\ \A i \in 1..Len(want) : last'.items[i].title = want[i]
      ]_vars

\* C18: on a read-only handle every call that writes fails with EPERM and
\* leaves the objects and links of the file as they were, and the directory
\* as initFile sets it up.
C18_ReadonlyRefuses ==
    [][readonly /\ last'.op # "none" =>
          /\ last'.res = "EPERM"
          /\ kind' = kind /\ links' = links
          /\ St' \in {St, initFile(St, update_timestamps)}
      ]_vars

\* C19: on a handle that keeps timestamps, a successful createGroup,
\* createDataset or createCommittedType returns a UUID the directory did not
\* hold before the call, files the object under that UUID in the anonymous
\* container of its kind and in no reference table, gives the object's
\* address that UUID and no other address, and sets the create and the
\* modify timestamp of the UUID to the time of the call.
C19_CreateAnonymous ==
    [][/\ last'.op \in {"createGroup", "createDataset", "createCommittedType"}
       /\ last'.res = "ok" /\ update_timestamps
       =>
          LET id == last'.uuid
              c == last'.col
              S0 == initFile(St, update_timestamps)
          IN  /\ \A k \in Collections : S0.anon[k][id] = NoObj /\ S0.refs[k][id] = NoObj
              /\ anon'[c][id] \in Objs /\ kind'[anon'[c][id]] # "free"
              /\ \A k \in Collections : refs'[k][id] = NoObj
              /\ {o \in Objs : addr'[o] = id} = {anon'[c][id]}
              /\ ctime'[<<id, "object", "">>] = now
              /\ mtime'[<<id, "object", "">>] = now
      ]_vars

\* C20: on an initialised file getModifiedTime and getCreateTime succeed for
\* every key and change nothing; getModifiedTime returns the key's stored
\* mtime, else its stored ctime, else with root fallback the root's mtime,
\* else none; getCreateTime returns the key's stored ctime, else with root
\* fallback the root's ctime, else none (0 is none).
C20_TimestampFallback ==
    [][inited /\ last'.op \in {"getModifiedTime", "getCreateTime"} =>
          LET k == <<last'.uuid, last'.objType, last'.name>>
              root == <<RootUuid, "object", "">>
          IN  /\ last'.res = "ok"
              /\ St' = St
              /\ last'.op = "getModifiedTime" =>
                    last'.time = IF mtime[k] # 0 THEN mtime[k]
                                 ELSE IF ctime[k] # 0 THEN ctime[k]
                                 ELSE IF last'.useRoot THEN mtime[root] ELSE 0
              /\ last'.op = "getCreateTime" =>
                    last'.time = IF ctime[k] # 0 THEN ctime[k]
                                 ELSE IF last'.useRoot THEN ctime[root] ELSE 0
      ]_vars

\* C21: a selection of one hyperslab given as (start, stop) with stop
\* exclusive is stored with its last element stop - 1 and read back with 1
\* added, so creating a region reference and reading it returns the same
\* (start, stop); a start below 0, a stop not above start, or a start or stop
\* whose length is not the rank of the dataset is refused with EINVAL.
C21_Valid ==
    /\ Len(args.start) = args.rank /\ Len(args.stop) = args.rank
    /\ \A i \in 1 .. args.rank :
           args.start[i] >= 0 /\ args.stop[i] > args.start[i]

C21_RegionRoundTrip ==
    args.fn = "createRegionReference" =>
        /\ ret.pc = "raise" => ret.res = "EINVAL" /\ ~C21_Valid
        /\ ret.pc \in {"created", "read"} =>
               /\ C21_Valid
               /\ ret.ref = <<<<args.start,
                                [i \in 1 .. args.rank |-> args.stop[i] - 1]>>>>
        /\ ret.pc = "read" => ret.selection = <<<<args.start, args.stop>>>>

C21_Witness ==
    /\ args.fn = "createRegionReference" /\ ret.pc = "read"
    /\ args.rank = 2 /\ args.start = <<1, 0>> /\ args.stop = <<3, 2>>
    /\ ret.selection = <<<<args.start, args.stop>>>>

\* C22: getItemSize returns bits/8 for a predefined integer or float, the
\* declared length for a fixed string, the size for an opaque type, the size
\* of the base for an enum, the sum of the sizes of the fields for a
\* compound, the size of the base times the product of the dims for an
\* array, and H5T_VARIABLE for a vlen, a variable-length string or a
\* reference and for every compound or array that holds one at any depth.
C22_Bits(name) ==
    CASE name.num_bits = <<"8">> -> 8
      [] name.num_bits = <<"1", "6">> -> 16
      [] name.num_bits = <<"3", "2">> -> 32
      [] name.num_bits = <<"6", "4">> -> 64

RECURSIVE C22_HasVariable(_)
C22_HasVariable(t) ==
    IF IsName(t) THEN FALSE
    ELSE CASE t.class \in {"H5T_VLEN", "H5T_REFERENCE"} -> TRUE
           [] t.class = "H5T_STRING" -> t.length = H5T_VARIABLE
           [] t.class = "H5T_ARRAY" -> C22_HasVariable(t.base)
           [] t.class = "H5T_COMPOUND" ->
                  \E i \in DOMAIN t.fields : C22_HasVariable(t.fields[i].type)
           [] OTHER -> FALSE

RECURSIVE C22_Sum(_)
C22_Sum(sizes) == IF sizes = <<>> THEN 0 ELSE Head(sizes) + C22_Sum(Tail(sizes))

C22_ItemSize ==
    args.fn = "getItemSize" /\ ret.pc = "return" =>
        LET t == args.typeItem
            s == ret.item_size
        IN  /\ s = H5T_VARIABLE <=> C22_HasVariable(t)
            /\ ~C22_HasVariable(t) =>
                 IF IsName(t) THEN s * 8 = C22_Bits(t)
                 ELSE CASE t.class \in {"H5T_INTEGER", "H5T_FLOAT"} ->
                               s * 8 = C22_Bits(t.base)
                        [] t.class = "H5T_STRING" -> s = t.length
                        [] t.class = "H5T_OPAQUE" -> s = t.size
                        [] t.class = "H5T_ENUM" ->
                               s * 8 = C22_Bits(t.base.base)
                        [] t.class = "H5T_COMPOUND" ->
                               s = C22_Sum([i \in DOMAIN t.fields |->
                                       getItemSize(t.fields[i].type)])
                        [] t.class = "H5T_ARRAY" ->
                               s = getItemSize(t.base) * Product(t.dims)

C22_Witness ==
    /\ args.fn = "getItemSize" /\ ret.pc = "return"
    /\ args.typeItem.class = "H5T_ARRAY"
    /\ args.typeItem.dims = <<2, 3>>
    /\ args.typeItem.base.class = "H5T_COMPOUND"
    /\ Len(args.typeItem.base.fields) = 2
    /\ ret.item_size = 12 * 6

\* C24: for every type descriptor d that createDataType accepts - integers
\* and floats of each width and byte order, fixed and variable strings with
\* any strPad, compound, vlen, array, enum, opaque and the two reference
\* types - getTypeItem(createDataType(d)) equals d.
C24_TypeRoundTrip ==
    /\ args.fn = "createDataType" => ret.pc # "raise"
    /\ args.fn = "createDataType" /\ ret.pc = "return" =>
           ret.type_info = args.typeItem

\* C23: getDatasetValuesByUuid, setDatasetValuesByUuid and
\* setDatasetValuesByPointSelection called with format 'binary' on a dataset
\* whose type has element size H5T_VARIABLE fail with EINVAL and read or
\* write no data and no timestamp; with format 'json' they are not refused
\* on that ground.
C23_BinaryRefused ==
    ret.pc = "return" /\ args.fn \in {"getDatasetValuesByUuid",
                                      "setDatasetValuesByUuid",
                                      "setDatasetValuesByPointSelection"}
                      /\ getItemSize(args.typeItem) = H5T_VARIABLE =>
        /\ args.format = "binary" =>
               ret.res = "EINVAL" /\ ~ret.data /\ ~ret.mtime
        /\ args.format = "json" /\ args.fits => ret.res = "ok"

\* C25: decoding a value of rank r and extents dims returns lists nested
\* exactly r deep whose length at level k is dims[k], with the decoded
\* element at each position; at rank 0 a compound value is decoded field by
\* field in the order of the fields; a compound value whose number of
\* elements is not the number of fields of the type makes the call fail.
C25_Mismatch(typeItem, value) ==
    /\ typeItem.class = "H5T_COMPOUND"
    /\ Len(value.items) # Len(typeItem.fields)

RECURSIVE C25_Nested(_, _, _)
C25_Nested(out, dims, data) ==
    IF dims = <<>>
    THEN out = getDataValue(args.typeItem, data, 0, <<>>).out
    ELSE /\ out.t = "list"
         /\ Len(out.items) = Head(dims)
         /\ \A i \in 1 .. Head(dims) :
                C25_Nested(out.items[i], Tail(dims), item(data, i))

C25_Decode ==
    args.fn = "toList" /\ ret.pc \in {"return", "raise"} =>
        LET elements == IF args.dims = <<>> THEN {args.data}
                        ELSE {args.data.flat[i] : i \in DOMAIN args.data.flat}
        IN  /\ ret.pc = "raise" <=>
                   \E e \in elements : C25_Mismatch(args.typeItem, e)
            /\ ret.pc = "return" => C25_Nested(ret.out, args.dims, args.data)
            /\ ret.pc = "return" /\ args.rank = 0
                   /\ args.typeItem.class = "H5T_COMPOUND" =>
                   /\ Len(ret.out.items) = Len(args.typeItem.fields)
                   /\ \A i \in DOMAIN args.typeItem.fields :
                          ret.out.items[i] =
                              getDataValue(args.typeItem.fields[i].type,
                                           args.data.items[i], 0, <<>>).out

C25_Witness ==
    /\ args.fn = "toList" /\ ret.pc = "return"
    /\ args.dims = <<2, 3>> /\ args.typeItem = Pair(Vector)
    /\ Len(ret.out.items) = 2 /\ Len(ret.out.items[1].items) = 3
    /\ ret.out.items[2].items[3] =
           PyList(<<PyInt(0), PyList(<<PyInt(1), PyInt(0)>>)>>)

\* C26: when a store write fails part-way through linkObject, unlinkItem or
\* deleteObjectByUuid, the directory stays consistent: no UUID is Anonymous
\* while its object is hard-linked from a group, no reference and no address
\* entry is left for an object that is gone, and no live object with a
\* directory entry is without its address entry.
C26_Consistent(S) ==
    /\ \A c \in Collections, u \in AllUuids :
           S.anon[c][u] # NoObj =>
               ~\E g \in Objs, n \in Names :
                    S.kind[g] = "group"
                    /\ isObjectHardLinked(S, g, S.anon[c][u], n)
    /\ \A c \in Collections, u \in AllUuids :
           S.refs[c][u] # NoObj => S.kind[S.refs[c][u]] # "free"
    /\ \A o \in Objs : S.addr[o] # NoUuid => S.kind[o] # "free"
    /\ \A c \in Collections, u \in AllUuids :
           LET o == IF S.refs[c][u] # NoObj THEN S.refs[c][u]
                    ELSE S.anon[c][u]
           IN  o \in Objs /\ o # RootObj /\ S.kind[o] # "free" =>
                   S.addr[o] # NoUuid

C26_StoreFailure ==
    [][last'.res = "OSError" /\ C26_Consistent(initFile(St, update_timestamps))
           => C26_Consistent(St')]_vars

\* C27: after a createAttribute or a createDataset call has returned or
\* raised, {tmp} holds no entry named after that attribute or that UUID.
C27_TmpReleased ==
    /\ last.op = "createDataset" => last.uuid \notin tmp.datasets
    /\ last.op = "createAttribute" => last.name \notin tmp.attrs

\* C28: every UUID recorded in a reference table refers to an object that
\* still exists and that a hard link of some group names; the root group
\* needs no link.
C28_LinkedReachable ==
    \A c \in Collections, u \in AllUuids :
        LET o == refs[c][u] IN
        o # NoObj =>
            /\ kind[o] # "free"
            /\ o = RootObj
               \/ \E g \in Objs, n \in Names :
                     /\ kind[g] = "group"
                     /\ links[g][n].cls = "hard" /\ links[g][n].tgt = o

\* C29: no call removes, replaces or exposes the root's "__db__" link:
\* the link stays the one initFile made, unlinkItem on it ends in EPERM,
\* and getUUIDByPath resolves no path into the directory group.
C29_DbPrivate ==
    /\ dblink = NoLink
    /\ last.op = "unlinkItem" /\ last.name = "__db__" => last.res = "EPERM"
    /\ last.op = "getUUIDByPath" /\ last.name = "__db__" => last.res # "ok"

\* C30: for slices with 0 <= start <= stop <= extent and step >= 1 that
\* select an element, a binary write is accepted exactly when its length is
\* the number of selected elements (per dimension the indices start,
\* start + step, ... below stop) times the element size, and is refused
\* with EINVAL otherwise; any other slice is refused with EINVAL and
\* nothing is written.
C30_Indices(s) == {k \in 0 .. MaxCoord : s.start + k * s.step < s.stop}

C30_Selected(slices) ==
    Product([i \in DOMAIN slices |-> Cardinality(C30_Indices(slices[i]))])

C30_Valid(shape, slices) ==
    \A i \in DOMAIN slices :
        /\ 0 <= slices[i].start /\ slices[i].start <= slices[i].stop
        /\ slices[i].stop <= shape[i] /\ slices[i].step >= 1

C30_SliceCount ==
    args.fn = "setDatasetValuesByUuid" /\ ret.pc # "call" =>
        IF C30_Valid(args.shape, args.slices) /\ C30_Selected(args.slices) > 0
        THEN IF args.nbytes = C30_Selected(args.slices) * args.itemSize
             THEN ret.res = "ok" /\ ret.data
             ELSE ret.res = "EINVAL" /\ ~ret.data
        ELSE ret.res = "EINVAL" /\ ~ret.data
============================================================================
